---------------------------- MODULE Spec2Model ----------------------------
(***************************************************************************)
(* A model of the terminal text editor in src/unnamed/part_000 (a kilo     *)
(* derivative): the row buffer with its chars/render duality, the syntax   *)
(* scanner with its forward cascade of multi-line comment state, cursor    *)
(* movement, scrolling and the incremental search.                         *)
(*                                                                         *)
(* Characters and keys are integers, as in the C source: a character is    *)
(* its ASCII code, a special key is its editorKey value.  C arrays are     *)
(* 0-based and TLA+ sequences 1-based: every index below (cx, cy, idx, at, *)
(* rx, i) is the C index, and element i of a C array a is a[i + 1].        *)
(***************************************************************************)
EXTENDS Integers, Sequences, FiniteSets, TLC

(***************************************************************************)
(* Program constants.                                                      *)
(***************************************************************************)
BACKSPACE == 127
ARROW_LEFT == 1000
ARROW_RIGHT == 1001
ARROW_UP == 1002
ARROW_DOWN == 1003
DEL_KEY == 1004
HOME_KEY == 1005
END_KEY == 1006
PAGE_UP == 1007
PAGE_DOWN == 1008

HL_NORMAL == 0
HL_COMMENT == 1
HL_MLCOMMENT == 2
HL_KEYWORD1 == 3
HL_KEYWORD2 == 4
HL_STRING == 5
HL_NUMBER == 6
HL_MATCH == 7

HL_HIGHLIGHT_NUMBERS == 1
HL_HIGHLIGHT_STRINGS == 2

KILO_TAB_STOP == 8
KILO_QUIT_TIMES == 3

\* Character literals the source names.
CH_NUL == 0
CH_TAB == 9
CH_LF == 10
CH_CR == 13
CH_ESC == 27
CH_SPACE == 32
CH_DQUOTE == 34
CH_SQUOTE == 39
CH_DOT == 46
CH_BACKSLASH == 92
CH_PIPE == 124
CTRL_F == 6
CTRL_H == 8
CTRL_L == 12
CTRL_Q == 17
CTRL_S == 19

\* The NULL pointer, for char* fields whose string is never empty when set.
NULL == <<>>

C_HL_extensions ==
  << <<46, 99>>,             \* ".c"
     <<46, 104>>,            \* ".h"
     <<46, 99, 112, 112>> >> \* ".cpp"

C_HL_keywords ==
  << <<115, 119, 105, 116, 99, 104>>,            \* "switch"
     <<105, 102>>,                               \* "if"
     <<119, 104, 105, 108, 101>>,                \* "while"
     <<102, 111, 114>>,                          \* "for"
     <<98, 114, 101, 97, 107>>,                  \* "break"
     <<99, 111, 110, 116, 105, 110, 117, 101>>,  \* "continue"
     <<114, 101, 116, 117, 114, 110>>,           \* "return"
     <<101, 108, 115, 101>>,                     \* "else"
     <<115, 116, 114, 117, 99, 116>>,            \* "struct"
     <<117, 110, 105, 111, 110>>,                \* "union"
     <<116, 121, 112, 101, 100, 101, 102>>,      \* "typedef"
     <<115, 116, 97, 116, 105, 99>>,             \* "static"
     <<101, 110, 117, 109>>,                     \* "enum"
     <<99, 108, 97, 115, 115>>,                  \* "class"
     <<99, 97, 115, 101>>,                       \* "case"
     <<105, 110, 116, 124>>,                     \* "int|"
     <<108, 111, 110, 103, 124>>,                \* "long|"
     <<100, 111, 117, 98, 108, 101, 124>>,       \* "double|"
     <<102, 108, 111, 97, 116, 124>>,            \* "float|"
     <<99, 104, 97, 114, 124>>,                  \* "char|"
     <<117, 110, 115, 105, 103, 110, 101, 100, 124>>, \* "unsigned|"
     <<115, 105, 103, 110, 101, 100, 124>>,      \* "signed|"
     <<118, 111, 105, 100, 124>> >>              \* "void|"

\* HLDB[0]: the one entry of the highlight database.
HLDB ==
  << [ filetype |-> <<99>>,                      \* "c"
       filematch |-> C_HL_extensions,
       keywords |-> C_HL_keywords,
       singleline_comment_start |-> <<47, 47>>,  \* "//"
       multiline_comment_start |-> <<47, 42>>,   \* "/*"
       multiline_comment_end |-> <<42, 47>>,     \* "*/"
       flags |-> {HL_HIGHLIGHT_NUMBERS, HL_HIGHLIGHT_STRINGS} ] >>

\* E.syntax is NULL (no descriptor) or points at an entry of HLDB.
NoSyntax == 0

(***************************************************************************)
(* C string helpers.                                                       *)
(***************************************************************************)
\* s[i] of a NUL-terminated string held in a sequence: the terminator at Len(s).
At(s, i) == IF i < Len(s) THEN s[i + 1] ELSE CH_NUL

\* strncmp(&s[i], t, strlen(t)) == 0
StartsWith(s, i, t) ==
  /\ i + Len(t) <= Len(s)
  /\ \A k \in 1..Len(t) : s[i + k] = t[k]

\* strlen(s): the characters of the array s before its first NUL.
strlen(s) ==
  IF \E k \in 1..Len(s) : s[k] = CH_NUL
  THEN (CHOOSE k \in 1..Len(s) :
          s[k] = CH_NUL /\ \A m \in 1..(k - 1) : s[m] # CH_NUL) - 1
  ELSE Len(s)

\* t occurs at offset i of the C string s.
OccursAt(s, i, t) == i + Len(t) <= strlen(s) /\ StartsWith(s, i, t)

\* strstr(s, t): the offset of the first occurrence of t in s, -1 for NULL.
strstr(s, t) ==
  IF \E i \in 0..Len(s) : OccursAt(s, i, t)
  THEN CHOOSE i \in 0..Len(s) :
         /\ OccursAt(s, i, t)
         /\ \A j \in 0..(i - 1) : ~OccursAt(s, j, t)
  ELSE -1

\* memset(&a[i], v, n) on an array held in a sequence.
memset(a, i, v, n) ==
  [k \in 1..Len(a) |-> IF k - 1 >= i /\ k - 1 < i + n THEN v ELSE a[k]]

isspace(c) == c \in {9, 10, 11, 12, 13, 32}
isdigit(c) == c \in 48..57
iscntrl(c) == c \in 0..31 \/ c = 127

(***************************************************************************)
(* Syntax highlighting.                                                    *)
(***************************************************************************)
is_separator(c) ==
  \/ isspace(c)
  \/ c = CH_NUL
  \/ c \in {44, 46, 40, 41, 43, 45, 47, 42, 61, 126, 37, 60, 62, 91, 93, 59}

\* The keyword loop of editorUpdateSyntax: the index j of the first entry of
\* keywords that matches at render[i] and is followed by a separator, or
\* Len(keywords) + 1 when the loop runs to the terminating NULL.
KeywordText(kw) ==
  IF kw[Len(kw)] = CH_PIPE THEN SubSeq(kw, 1, Len(kw) - 1) ELSE kw

\* KeywordMatches without the test of the character after the keyword.
KeywordMatches_NoSeparatorAfter(render, i, kw) ==
  StartsWith(render, i, KeywordText(kw))

KeywordMatches(render, i, kw) ==
  /\ StartsWith(render, i, KeywordText(kw))
  /\ is_separator(At(render, i + Len(KeywordText(kw))))

Least(M, none) ==
  IF M = {} THEN none ELSE CHOOSE j \in M : \A k \in M : j <= k

\* The keyword loop taking the longest keyword that matches, the first of
\* them in the list when several are as long.
FirstKeyword_Longest(keywords, render, i) ==
  LET M == {j \in 1..Len(keywords) : KeywordMatches(render, i, keywords[j])}
      L == {j \in M : \A k \in M : Len(KeywordText(keywords[k]))
                                     <= Len(KeywordText(keywords[j]))}
  IN Least(L, Len(keywords) + 1)

FirstKeyword(keywords, render, i) ==
  Least({j \in 1..Len(keywords) : KeywordMatches(render, i, keywords[j])},
        Len(keywords) + 1)

\* kw2 ? HL_KEYWORD2 : HL_KEYWORD1 (line 344).
KeywordClass(kw) ==
  IF kw[Len(kw)] = CH_PIPE THEN HL_KEYWORD2 ELSE HL_KEYWORD1

\* The scan testing for the single-line comment marker inside strings too.
RECURSIVE ScanFrom_CommentInString(_, _, _, _, _, _, _)
ScanFrom_CommentInString(syn, render, i, hl, prev_sep, in_string, in_comment) ==
  LET rsize == Len(render)
      scs == syn.singleline_comment_start
      mcs == syn.multiline_comment_start
      mce == syn.multiline_comment_end
      c == At(render, i)
      prev_hl == IF i > 0 THEN hl[i] ELSE HL_NORMAL
      j == FirstKeyword(syn.keywords, render, i)
  IN
  IF i >= rsize THEN [hl |-> hl, in_comment |-> in_comment]
  ELSE IF /\ Len(scs) # 0 /\ ~in_comment
          /\ StartsWith(render, i, scs)
  THEN [hl |-> memset(hl, i, HL_COMMENT, rsize - i), in_comment |-> in_comment]
  ELSE IF Len(mcs) # 0 /\ Len(mce) # 0 /\ in_string = 0 /\ in_comment
  THEN IF StartsWith(render, i, mce)
       THEN ScanFrom_CommentInString(syn, render, i + Len(mce),
                     memset(hl, i, HL_MLCOMMENT, Len(mce)), TRUE, in_string, FALSE)
       ELSE ScanFrom_CommentInString(syn, render, i + 1,
                     memset(hl, i, HL_MLCOMMENT, 1), prev_sep, in_string, in_comment)
  ELSE IF /\ Len(mcs) # 0 /\ Len(mce) # 0 /\ in_string = 0
          /\ StartsWith(render, i, mcs)
  THEN ScanFrom_CommentInString(syn, render, i + Len(mcs),
                memset(hl, i, HL_MLCOMMENT, Len(mcs)), prev_sep, in_string, TRUE)
  ELSE IF HL_HIGHLIGHT_STRINGS \in syn.flags /\ in_string # 0
  THEN IF c = CH_BACKSLASH /\ i + 1 < rsize
       THEN ScanFrom_CommentInString(syn, render, i + 2,
                     memset(hl, i, HL_STRING, 2), prev_sep, in_string, in_comment)
       ELSE ScanFrom_CommentInString(syn, render, i + 1,
                     memset(hl, i, HL_STRING, 1), TRUE,
                     IF c = in_string THEN 0 ELSE in_string, in_comment)
  ELSE IF HL_HIGHLIGHT_STRINGS \in syn.flags /\ c \in {CH_DQUOTE, CH_SQUOTE}
  THEN ScanFrom_CommentInString(syn, render, i + 1,
                memset(hl, i, HL_STRING, 1), prev_sep, c, in_comment)
  ELSE IF /\ HL_HIGHLIGHT_NUMBERS \in syn.flags
          /\ \/ isdigit(c) /\ (prev_sep \/ prev_hl = HL_NUMBER)
             \/ c = CH_DOT /\ prev_hl = HL_NUMBER
  THEN ScanFrom_CommentInString(syn, render, i + 1,
                memset(hl, i, HL_NUMBER, 1), FALSE, in_string, in_comment)
  ELSE IF prev_sep /\ j <= Len(syn.keywords)
  THEN ScanFrom_CommentInString(syn, render, i + Len(KeywordText(syn.keywords[j])),
                memset(hl, i, KeywordClass(syn.keywords[j]),
                       Len(KeywordText(syn.keywords[j]))),
                FALSE, in_string, in_comment)
  ELSE ScanFrom_CommentInString(syn, render, i + 1, hl, is_separator(c), in_string, in_comment)

\* The while loop of editorUpdateSyntax from position i on, for the descriptor
\* syn: the final highlight array and in_comment.  in_string is 0 or the quote.
RECURSIVE ScanFrom(_, _, _, _, _, _, _)
ScanFrom(syn, render, i, hl, prev_sep, in_string, in_comment) ==
  LET rsize == Len(render)
      scs == syn.singleline_comment_start
      mcs == syn.multiline_comment_start
      mce == syn.multiline_comment_end
      c == At(render, i)
      prev_hl == IF i > 0 THEN hl[i] ELSE HL_NORMAL
      j == FirstKeyword(syn.keywords, render, i)
  IN
  IF i >= rsize THEN [hl |-> hl, in_comment |-> in_comment]
  ELSE IF /\ Len(scs) # 0 /\ in_string = 0 /\ ~in_comment
          /\ StartsWith(render, i, scs)
  THEN [hl |-> memset(hl, i, HL_COMMENT, rsize - i), in_comment |-> in_comment]
  ELSE IF Len(mcs) # 0 /\ Len(mce) # 0 /\ in_string = 0 /\ in_comment
  THEN IF StartsWith(render, i, mce)
       THEN ScanFrom(syn, render, i + Len(mce),
                     memset(hl, i, HL_MLCOMMENT, Len(mce)), TRUE, in_string, FALSE)
       ELSE ScanFrom(syn, render, i + 1,
                     memset(hl, i, HL_MLCOMMENT, 1), prev_sep, in_string, in_comment)
  ELSE IF /\ Len(mcs) # 0 /\ Len(mce) # 0 /\ in_string = 0
          /\ StartsWith(render, i, mcs)
  THEN ScanFrom(syn, render, i + Len(mcs),
                memset(hl, i, HL_MLCOMMENT, Len(mcs)), prev_sep, in_string, TRUE)
  ELSE IF HL_HIGHLIGHT_STRINGS \in syn.flags /\ in_string # 0
  THEN IF c = CH_BACKSLASH /\ i + 1 < rsize
       THEN ScanFrom(syn, render, i + 2,
                     memset(hl, i, HL_STRING, 2), prev_sep, in_string, in_comment)
       ELSE ScanFrom(syn, render, i + 1,
                     memset(hl, i, HL_STRING, 1), TRUE,
                     IF c = in_string THEN 0 ELSE in_string, in_comment)
  ELSE IF HL_HIGHLIGHT_STRINGS \in syn.flags /\ c \in {CH_DQUOTE, CH_SQUOTE}
  THEN ScanFrom(syn, render, i + 1,
                memset(hl, i, HL_STRING, 1), prev_sep, c, in_comment)
  ELSE IF /\ HL_HIGHLIGHT_NUMBERS \in syn.flags
          /\ \/ isdigit(c) /\ (prev_sep \/ prev_hl = HL_NUMBER)
             \/ c = CH_DOT /\ prev_hl = HL_NUMBER
  THEN ScanFrom(syn, render, i + 1,
                memset(hl, i, HL_NUMBER, 1), FALSE, in_string, in_comment)
  ELSE IF prev_sep /\ j <= Len(syn.keywords)
  THEN ScanFrom(syn, render, i + Len(KeywordText(syn.keywords[j])),
                memset(hl, i, KeywordClass(syn.keywords[j]),
                       Len(KeywordText(syn.keywords[j]))),
                FALSE, in_string, in_comment)
  ELSE ScanFrom(syn, render, i + 1, hl, is_separator(c), in_string, in_comment)

\* One row's scan in editorUpdateSyntax (lines 246-357): the highlight array
\* is reset to HL_NORMAL over rsize entries; without a descriptor the function
\* returns there, leaving hl_open_comment as stored.
ScanRow(syntax, render, seed, stored) ==
  LET blank == [k \in 1..Len(render) |-> HL_NORMAL]
  IN IF syntax = NoSyntax
     THEN [hl |-> blank, in_comment |-> stored]
     ELSE ScanFrom(HLDB[syntax], render, 0, blank, TRUE, 0, seed)

\* editorUpdateSyntax(&Ed.row[p]): the row is found through the pointer, its
\* neighbours through row->idx; the recursion follows E.numrows as stored.
\* StoreScan is the end of the function (lines 360-363) for the scan r.
RECURSIVE editorUpdateSyntax(_, _)
StoreScan(Ed, p, r) ==
  LET row == Ed.row[p + 1]
      changed == row.hl_open_comment # r.in_comment
      E1 == [Ed EXCEPT !.row[p + 1].hl = r.hl,
                       !.row[p + 1].hl_open_comment = r.in_comment]
  IN IF changed /\ row.idx + 1 < Ed.numrows
     THEN editorUpdateSyntax(E1, row.idx + 1)
     ELSE E1

editorUpdateSyntax(Ed, p) ==
  LET row == Ed.row[p + 1]
      seed == row.idx > 0 /\ Ed.row[row.idx].hl_open_comment
  IN StoreScan(Ed, p, ScanRow(Ed.syntax, row.render, seed, row.hl_open_comment))

\* strstr(E.filename, pat) hits and either the pattern does not start with a
\* dot or the hit ends the filename (line 399).
FileMatches(filename, pat) ==
  LET p == strstr(filename, pat)
  IN /\ p # -1
     /\ (pat[1] # CH_DOT \/ At(filename, p + Len(pat)) = CH_NUL)

\* The loop "for filerow < E.numrows: editorUpdateSyntax(&E.row[filerow])".
RECURSIVE UpdateSyntaxFrom(_, _)
UpdateSyntaxFrom(Ed, filerow) ==
  IF filerow < Ed.numrows
  THEN UpdateSyntaxFrom(editorUpdateSyntax(Ed, filerow), filerow + 1)
  ELSE Ed

editorSelectSyntaxHighlight(Ed) ==
  LET E0 == [Ed EXCEPT !.syntax = NoSyntax]
      hits == {j \in 1..Len(HLDB) :
                 \E i \in 1..Len(HLDB[j].filematch) :
                    FileMatches(Ed.filename, HLDB[j].filematch[i])}
  IN IF Ed.filename = NULL \/ hits = {} THEN E0
     ELSE LET j == CHOOSE j \in hits : \A k \in hits : j <= k
          IN UpdateSyntaxFrom([E0 EXCEPT !.syntax = j], 0)

(***************************************************************************)
(* Row operations.                                                         *)
(***************************************************************************)
editorRowCxToRx(row, cx) ==
  LET RECURSIVE Loop(_, _)
      Loop(j, rx) ==
        IF j < cx
        THEN Loop(j + 1,
                  (IF row.chars[j + 1] = CH_TAB
                   THEN rx + (KILO_TAB_STOP - 1) - (rx % KILO_TAB_STOP)
                   ELSE rx) + 1)
        ELSE rx
  IN Loop(0, 0)

\* editorRowRxToCx returning on cur_rx >= rx instead of cur_rx > rx.
editorRowRxToCx_AtOrPast(row, rx) ==
  LET RECURSIVE Loop(_, _)
      Loop(cx, cur_rx) ==
        IF cx < Len(row.chars)
        THEN LET nxt == (IF row.chars[cx + 1] = CH_TAB
                         THEN cur_rx + (KILO_TAB_STOP - 1) - (cur_rx % KILO_TAB_STOP)
                         ELSE cur_rx) + 1
             IN IF nxt >= rx THEN cx ELSE Loop(cx + 1, nxt)
        ELSE cx
  IN Loop(0, 0)

editorRowRxToCx(row, rx) ==
  LET RECURSIVE Loop(_, _)
      Loop(cx, cur_rx) ==
        IF cx < Len(row.chars)
        THEN LET nxt == (IF row.chars[cx + 1] = CH_TAB
                         THEN cur_rx + (KILO_TAB_STOP - 1) - (cur_rx % KILO_TAB_STOP)
                         ELSE cur_rx) + 1
             IN IF nxt > rx THEN cx ELSE Loop(cx + 1, nxt)
        ELSE cx
  IN Loop(0, 0)

\* The render with every tab written as KILO_TAB_STOP spaces, whatever the
\* column it starts in.
RenderOf_FixedTabs(chars) ==
  LET RECURSIVE Loop(_, _)
      Loop(j, out) ==
        IF j < Len(chars)
        THEN IF chars[j + 1] = CH_TAB
             THEN Loop(j + 1, out \o [k \in 1..KILO_TAB_STOP |-> CH_SPACE])
             ELSE Loop(j + 1, Append(out, chars[j + 1]))
        ELSE out
  IN Loop(0, <<>>)

\* The second loop of editorUpdateRow: the render of chars.
RenderOf(chars) ==
  LET RECURSIVE Loop(_, _)
      Loop(j, out) ==
        IF j < Len(chars)
        THEN IF chars[j + 1] = CH_TAB
             THEN Loop(j + 1,
                       out \o [k \in 1..(KILO_TAB_STOP - (Len(out) % KILO_TAB_STOP))
                                 |-> CH_SPACE])
             ELSE Loop(j + 1, Append(out, chars[j + 1]))
        ELSE out
  IN Loop(0, <<>>)

editorUpdateRow(Ed, p) ==
  editorUpdateSyntax([Ed EXCEPT !.row[p + 1].render = RenderOf(Ed.row[p + 1].chars)], p)

editorInsertRow(Ed, at, s) ==
  IF at < 0 \/ at > Ed.numrows THEN Ed
  ELSE LET fresh == [idx |-> at, chars |-> s, render |-> <<>>, hl |-> <<>>,
                     hl_open_comment |-> FALSE]
           moved == [j \in 1..(Ed.numrows + 1) |->
                       IF j - 1 < at THEN Ed.row[j]
                       ELSE IF j - 1 = at THEN fresh
                       ELSE [Ed.row[j - 1] EXCEPT !.idx = @ + 1]]
           E1 == editorUpdateRow([Ed EXCEPT !.row = moved], at)
       IN [E1 EXCEPT !.numrows = @ + 1, !.dirty = @ + 1]

\* editorDelRow without the loop that renumbers the rows after at.
editorDelRow_KeepIdx(Ed, at) ==
  IF at < 0 \/ at >= Ed.numrows THEN Ed
  ELSE [Ed EXCEPT
          !.row = [j \in 1..(Ed.numrows - 1) |->
                     IF j - 1 < at THEN Ed.row[j] ELSE Ed.row[j + 1]],
          !.numrows = @ - 1,
          !.dirty = @ + 1]

editorDelRow(Ed, at) ==
  IF at < 0 \/ at >= Ed.numrows THEN Ed
  ELSE [Ed EXCEPT
          !.row = [j \in 1..(Ed.numrows - 1) |->
                     IF j - 1 < at THEN Ed.row[j]
                     ELSE [Ed.row[j + 1] EXCEPT !.idx = @ - 1]],
          !.numrows = @ - 1,
          !.dirty = @ + 1]

editorRowInsertChar(Ed, p, at0, c) ==
  LET chars == Ed.row[p + 1].chars
      at == IF at0 < 0 \/ at0 > Len(chars) THEN Len(chars) ELSE at0
      E1 == [Ed EXCEPT !.row[p + 1].chars =
                         SubSeq(chars, 1, at) \o <<c>> \o SubSeq(chars, at + 1, Len(chars))]
  IN [editorUpdateRow(E1, p) EXCEPT !.dirty = @ + 1]

editorRowAppendString(Ed, p, s) ==
  [editorUpdateRow([Ed EXCEPT !.row[p + 1].chars = @ \o s], p) EXCEPT !.dirty = @ + 1]

\* editorRowDelChar closing the gap one character too early: it removes the
\* character before at.
editorRowDelChar_OneBefore(Ed, p, at) ==
  LET chars == Ed.row[p + 1].chars
  IN IF at < 0 \/ at >= Len(chars) THEN Ed
     ELSE [editorUpdateRow(
             [Ed EXCEPT !.row[p + 1].chars =
                          SubSeq(chars, 1, at - 1) \o SubSeq(chars, at + 1, Len(chars))], p)
           EXCEPT !.dirty = @ + 1]

\* editorRowDelChar with at > row->size in place of at >= row->size.
editorRowDelChar_PastEnd(Ed, p, at) ==
  LET chars == Ed.row[p + 1].chars
  IN IF at < 0 \/ at > Len(chars) THEN Ed
     ELSE [editorUpdateRow(
             [Ed EXCEPT !.row[p + 1].chars =
                          SubSeq(chars, 1, at) \o SubSeq(chars, at + 2, Len(chars))], p)
           EXCEPT !.dirty = @ + 1]

editorRowDelChar(Ed, p, at) ==
  LET chars == Ed.row[p + 1].chars
  IN IF at < 0 \/ at >= Len(chars) THEN Ed
     ELSE [editorUpdateRow(
             [Ed EXCEPT !.row[p + 1].chars =
                          SubSeq(chars, 1, at) \o SubSeq(chars, at + 2, Len(chars))], p)
           EXCEPT !.dirty = @ + 1]

(***************************************************************************)
(* Editor operations.                                                      *)
(***************************************************************************)
\* editorInsertChar without E.cx++.
editorInsertChar_StaysPut(Ed, c) ==
  editorRowInsertChar(
    IF Ed.cy = Ed.numrows THEN editorInsertRow(Ed, Ed.numrows, <<>>) ELSE Ed,
    Ed.cy, Ed.cx, c)

\* editorInsertRow leaves E.cy and E.cx as they are.
editorInsertChar(Ed, c) ==
  [editorRowInsertChar(
     IF Ed.cy = Ed.numrows THEN editorInsertRow(Ed, Ed.numrows, <<>>) ELSE Ed,
     Ed.cy, Ed.cx, c)
   EXCEPT !.cx = @ + 1]

editorInsertNewline(Ed) ==
  LET E1 == IF Ed.cx = 0
            THEN editorInsertRow(Ed, Ed.cy, <<>>)
            ELSE LET chars == Ed.row[Ed.cy + 1].chars
                     E2 == editorInsertRow(Ed, Ed.cy + 1,
                                           SubSeq(chars, Ed.cx + 1, Len(chars)))
                 IN editorUpdateRow(
                      [E2 EXCEPT !.row[Ed.cy + 1].chars = SubSeq(chars, 1, Ed.cx)],
                      Ed.cy)
  IN [E1 EXCEPT !.cy = @ + 1, !.cx = 0]

\* editorDelChar joining two rows without moving cx to the end of the row
\* above.
editorDelChar_JoinKeepsCx(Ed) ==
  IF Ed.cy = Ed.numrows THEN Ed
  ELSE IF Ed.cx = 0 /\ Ed.cy = 0 THEN Ed
  ELSE IF Ed.cx > 0
  THEN [editorRowDelChar(Ed, Ed.cy, Ed.cx - 1) EXCEPT !.cx = @ - 1]
  ELSE LET row == Ed.row[Ed.cy + 1]
           E2 == editorRowAppendString(Ed, Ed.cy - 1, row.chars)
       IN [editorDelRow(E2, Ed.cy) EXCEPT !.cy = @ - 1]

editorDelChar(Ed) ==
  IF Ed.cy = Ed.numrows THEN Ed
  ELSE IF Ed.cx = 0 /\ Ed.cy = 0 THEN Ed
  ELSE IF Ed.cx > 0
  THEN [editorRowDelChar(Ed, Ed.cy, Ed.cx - 1) EXCEPT !.cx = @ - 1]
  ELSE LET row == Ed.row[Ed.cy + 1]
           E1 == [Ed EXCEPT !.cx = Len(Ed.row[Ed.cy].chars)]
           E2 == editorRowAppendString(E1, Ed.cy - 1, row.chars)
       IN [editorDelRow(E2, Ed.cy) EXCEPT !.cy = @ - 1]

(***************************************************************************)
(* File i/o.                                                               *)
(***************************************************************************)
\* editorRowsToString: *buflen is the sum of every size + 1, and buf holds
\* every row's chars followed by '\n'.
editorRowsToString(Ed) ==
  LET RECURSIVE Total(_, _)
      Total(j, totlen) ==
        IF j < Ed.numrows
        THEN Total(j + 1, totlen + Len(Ed.row[j + 1].chars) + 1)
        ELSE totlen
      RECURSIVE Loop(_, _)
      Loop(j, buf) ==
        IF j < Ed.numrows
        THEN Loop(j + 1, buf \o Ed.row[j + 1].chars \o <<CH_LF>>)
        ELSE buf
  IN [buflen |-> Total(0, 0), buf |-> Loop(0, <<>>)]

\* getline: the next line of the stream, its '\n' included when there is one.
GetLine(bytes) ==
  IF \E k \in 1..Len(bytes) : bytes[k] = CH_LF
  THEN SubSeq(bytes, 1, CHOOSE k \in 1..Len(bytes) :
                          /\ bytes[k] = CH_LF
                          /\ \A m \in 1..(k - 1) : bytes[m] # CH_LF)
  ELSE bytes

\* StripEol with an if in place of the while: one character at most.
StripEol_Once(line) ==
  IF Len(line) > 0 /\ line[Len(line)] \in {CH_LF, CH_CR}
  THEN SubSeq(line, 1, Len(line) - 1)
  ELSE line

\* The inner while of editorOpen: linelen-- over trailing '\n' and '\r'.
RECURSIVE StripEol(_)
StripEol(line) ==
  IF Len(line) > 0 /\ line[Len(line)] \in {CH_LF, CH_CR}
  THEN StripEol(SubSeq(line, 1, Len(line) - 1))
  ELSE line

\* editorOpen on a file that opens, whose content is bytes.
editorOpen(Ed, filename, bytes) ==
  LET RECURSIVE Loop(_, _)
      Loop(E1, rest) ==
        IF rest = <<>> THEN E1
        ELSE LET line == GetLine(rest)
             IN Loop(editorInsertRow(E1, E1.numrows, StripEol(line)),
                     SubSeq(rest, Len(line) + 1, Len(rest)))
      E0 == editorSelectSyntaxHighlight([Ed EXCEPT !.filename = filename])
  IN [Loop(E0, bytes) EXCEPT !.dirty = 0]

(***************************************************************************)
(* Output.                                                                 *)
(***************************************************************************)
\* A status message: what it says and the number its format prints, if any.
Msg(fmt, arg) == [fmt |-> fmt, arg |-> arg]

editorSetStatusMessage(Ed, msg) == [Ed EXCEPT !.statusmsg = Msg(msg, 0)]

\* editorScroll with the lower rows tested by > instead of >=.
editorScroll_RowBelow(Ed) ==
  LET rx == IF Ed.cy < Ed.numrows
            THEN editorRowCxToRx(Ed.row[Ed.cy + 1], Ed.cx)
            ELSE 0
      ro1 == IF Ed.cy < Ed.rowoff THEN Ed.cy ELSE Ed.rowoff
      ro2 == IF Ed.cy > ro1 + Ed.screenrows THEN Ed.cy - Ed.screenrows + 1 ELSE ro1
      co1 == IF rx < Ed.coloff THEN rx ELSE Ed.coloff
      co2 == IF rx >= co1 + Ed.screencols THEN rx - Ed.screencols + 1 ELSE co1
  IN [Ed EXCEPT !.rx = rx, !.rowoff = ro2, !.coloff = co2]

editorScroll(Ed) ==
  LET rx == IF Ed.cy < Ed.numrows
            THEN editorRowCxToRx(Ed.row[Ed.cy + 1], Ed.cx)
            ELSE 0
      ro1 == IF Ed.cy < Ed.rowoff THEN Ed.cy ELSE Ed.rowoff
      ro2 == IF Ed.cy >= ro1 + Ed.screenrows THEN Ed.cy - Ed.screenrows + 1 ELSE ro1
      co1 == IF rx < Ed.coloff THEN rx ELSE Ed.coloff
      co2 == IF rx >= co1 + Ed.screencols THEN rx - Ed.screencols + 1 ELSE co1
  IN [Ed EXCEPT !.rx = rx, !.rowoff = ro2, !.coloff = co2]

\* editorRefreshScreen changes the editor state through editorScroll only.
editorRefreshScreen(Ed) == editorScroll(Ed)

\* The cursor position editorRefreshScreen writes: the row and the column of
\* its "\x1b[%d;%dH".
CursorEscape(Ed) == <<(Ed.cy - Ed.rowoff) + 1, (Ed.rx - Ed.coloff) + 1>>

\* The characters snprintf writes for %d of n >= 0.
RECURSIVE Decimal(_)
Decimal(n) ==
  IF n < 10 THEN <<48 + n>> ELSE Decimal(n \div 10) \o <<48 + (n % 10)>>

\* snprintf(buf, sizeof(buf), "\x1b[%dm", color)
SetColor(color) == <<CH_ESC, 91>> \o Decimal(color) \o <<109>>

editorSyntaxToColor(hl) ==
  IF hl \in {HL_COMMENT, HL_MLCOMMENT} THEN 36
  ELSE IF hl = HL_KEYWORD1 THEN 33
  ELSE IF hl = HL_KEYWORD2 THEN 32
  ELSE IF hl = HL_STRING THEN 35
  ELSE IF hl = HL_NUMBER THEN 31
  ELSE IF hl = HL_MATCH THEN 34
  ELSE 37

\* "Kilo editor -- version %s" of KILO_VERSION, "0.0.1".
Welcome ==
  <<75, 105, 108, 111, 32, 101, 100, 105, 116, 111, 114, 32,
    45, 45, 32, 118, 101, 114, 115, 105, 111, 110, 32, 48, 46, 48, 46, 49>>

\* The loop of editorDrawRows over the characters of a row that leaves the
\* running color unset after the glyph of a control character.
RECURSIVE DrawFrom_NoRestore(_, _, _, _, _)
DrawFrom_NoRestore(row, coloff, len, j, current_color) ==
  IF j >= len THEN <<>>
  ELSE LET c == row.render[coloff + j + 1]
           hl == row.hl[coloff + j + 1]
           color == editorSyntaxToColor(hl)
       IN IF iscntrl(c)
          THEN <<CH_ESC, 91, 55, 109>> \o <<IF c <= 26 THEN 64 + c ELSE 63>>
                 \o <<CH_ESC, 91, 109>>
                 \o DrawFrom_NoRestore(row, coloff, len, j + 1, current_color)
          ELSE IF hl = HL_NORMAL
          THEN (IF current_color # -1 THEN <<CH_ESC, 91, 51, 57, 109>> ELSE <<>>)
                 \o <<c>> \o DrawFrom_NoRestore(row, coloff, len, j + 1, -1)
          ELSE (IF color # current_color THEN SetColor(color) ELSE <<>>)
                 \o <<c>> \o DrawFrom_NoRestore(row, coloff, len, j + 1, color)

\* The loop of editorDrawRows over the characters of a row (lines 861-888)
\* from j on: the bytes it appends.  c and hl of the code are render and hl
\* from coloff on.
RECURSIVE DrawFrom(_, _, _, _, _)
DrawFrom(row, coloff, len, j, current_color) ==
  IF j >= len THEN <<>>
  ELSE LET c == row.render[coloff + j + 1]
           hl == row.hl[coloff + j + 1]
           color == editorSyntaxToColor(hl)
       IN IF iscntrl(c)
          THEN <<CH_ESC, 91, 55, 109>> \o <<IF c <= 26 THEN 64 + c ELSE 63>>
                 \o <<CH_ESC, 91, 109>>
                 \o (IF current_color # -1 THEN SetColor(current_color) ELSE <<>>)
                 \o DrawFrom(row, coloff, len, j + 1, current_color)
          ELSE IF hl = HL_NORMAL
          THEN (IF current_color # -1 THEN <<CH_ESC, 91, 51, 57, 109>> ELSE <<>>)
                 \o <<c>> \o DrawFrom(row, coloff, len, j + 1, -1)
          ELSE (IF color # current_color THEN SetColor(color) ELSE <<>>)
                 \o <<c>> \o DrawFrom(row, coloff, len, j + 1, color)

\* One iteration of the loop of editorDrawRows over the screen rows: the
\* bytes appended for screen row y.
DrawRow(Ed, y) ==
  LET filerow == y + Ed.rowoff
      welcomelen == IF Len(Welcome) > Ed.screencols THEN Ed.screencols
                    ELSE Len(Welcome)
      padding == (Ed.screencols - welcomelen) \div 2
      rsize == IF filerow < Ed.numrows THEN Len(Ed.row[filerow + 1].render) ELSE 0
      len == IF rsize - Ed.coloff < 0 THEN 0
             ELSE IF rsize - Ed.coloff > Ed.screencols THEN Ed.screencols
             ELSE rsize - Ed.coloff
      text == IF filerow >= Ed.numrows
              THEN IF Ed.numrows = 0 /\ y = Ed.screenrows \div 3
                   THEN (IF padding # 0
                         THEN <<126>> \o [k \in 1..(padding - 1) |-> CH_SPACE]
                         ELSE <<>>)
                          \o SubSeq(Welcome, 1, welcomelen)
                   ELSE <<126>>
              ELSE DrawFrom(Ed.row[filerow + 1], Ed.coloff, len, 0, -1)
                     \o <<CH_ESC, 91, 51, 57, 109>>
  IN text \o <<CH_ESC, 91, 75>> \o <<CH_CR, CH_LF>>

\* What editorDrawRows appends to ab, screen row by screen row.  It is
\* called by editorRefreshScreen after editorScroll, and every state of the
\* machine below is one that editorRefreshScreen left: the text rows on the
\* terminal in a state are editorDrawRows(E).
editorDrawRows(Ed) == [y \in 1..Ed.screenrows |-> DrawRow(Ed, y - 1)]

(***************************************************************************)
(* Find.                                                                   *)
(***************************************************************************)
\* The statics of editorFindCallback as the program starts.
FindInit ==
  [last_match |-> -1, direction |-> 1, saved_hl_line |-> 0, saved_hl |-> NULL]

\* The search loop stepping current by 1 whatever the direction.
RECURSIVE FindLoop_AlwaysForward(_, _, _, _, _)
FindLoop_AlwaysForward(Ed, F, query, i, current) ==
  IF i >= Ed.numrows THEN [E |-> Ed, F |-> F]
  ELSE LET stepped == current + 1
           cur == IF stepped = -1 THEN Ed.numrows - 1
                  ELSE IF stepped = Ed.numrows THEN 0
                  ELSE stepped
           row == Ed.row[cur + 1]
           match == strstr(row.render, query)
       IN IF match # -1
          THEN [E |-> [Ed EXCEPT !.cy = cur,
                                 !.cx = editorRowRxToCx(row, match),
                                 !.rowoff = Ed.numrows,
                                 !.row[cur + 1].hl =
                                    memset(row.hl, match, HL_MATCH, Len(query))],
                F |-> [F EXCEPT !.last_match = cur,
                                !.saved_hl_line = cur,
                                !.saved_hl = row.hl]]
          ELSE FindLoop_AlwaysForward(Ed, F, query, i + 1, cur)

\* The rows the for loop of editorFindCallback examines from iteration i on,
\* in order: each iteration steps current and reads the render of that row,
\* and a match breaks out of the loop.
RECURSIVE FindVisits(_, _, _, _, _)
FindVisits(Ed, F, query, i, current) ==
  IF i >= Ed.numrows THEN <<>>
  ELSE LET stepped == current + F.direction
           cur == IF stepped = -1 THEN Ed.numrows - 1
                  ELSE IF stepped = Ed.numrows THEN 0
                  ELSE stepped
       IN IF strstr(Ed.row[cur + 1].render, query) # -1
          THEN <<cur>>
          ELSE <<cur>> \o FindVisits(Ed, F, query, i + 1, cur)

\* The search loop recording the row it examines in last_match before it
\* tests the row for a match.
RECURSIVE FindLoop_TracksCurrent(_, _, _, _, _)
FindLoop_TracksCurrent(Ed, F, query, i, current) ==
  IF i >= Ed.numrows THEN [E |-> Ed, F |-> F]
  ELSE LET stepped == current + F.direction
           cur == IF stepped = -1 THEN Ed.numrows - 1
                  ELSE IF stepped = Ed.numrows THEN 0
                  ELSE stepped
           row == Ed.row[cur + 1]
           match == strstr(row.render, query)
       IN IF match # -1
          THEN [E |-> [Ed EXCEPT !.cy = cur,
                                 !.cx = editorRowRxToCx(row, match),
                                 !.rowoff = Ed.numrows,
                                 !.row[cur + 1].hl =
                                    memset(row.hl, match, HL_MATCH, Len(query))],
                F |-> [F EXCEPT !.last_match = cur,
                                !.saved_hl_line = cur,
                                !.saved_hl = row.hl]]
          ELSE FindLoop_TracksCurrent(Ed, [F EXCEPT !.last_match = cur],
                                      query, i + 1, cur)

\* The for loop of editorFindCallback from iteration i on.
RECURSIVE FindLoop(_, _, _, _, _)
FindLoop(Ed, F, query, i, current) ==
  IF i >= Ed.numrows THEN [E |-> Ed, F |-> F]
  ELSE LET stepped == current + F.direction
           cur == IF stepped = -1 THEN Ed.numrows - 1
                  ELSE IF stepped = Ed.numrows THEN 0
                  ELSE stepped
           row == Ed.row[cur + 1]
           match == strstr(row.render, query)
       IN IF match # -1
          THEN [E |-> [Ed EXCEPT !.cy = cur,
                                 !.cx = editorRowRxToCx(row, match),
                                 !.rowoff = Ed.numrows,
                                 !.row[cur + 1].hl =
                                    memset(row.hl, match, HL_MATCH, Len(query))],
                F |-> [F EXCEPT !.last_match = cur,
                                !.saved_hl_line = cur,
                                !.saved_hl = row.hl]]
          ELSE FindLoop(Ed, F, query, i + 1, cur)

\* editorFindCallback whose last else sets the direction only.
editorFindCallback_KeepsLastMatch(Ed, F, query, key) ==
  LET line == F.saved_hl_line
      E1 == IF F.saved_hl # NULL
            THEN [Ed EXCEPT !.row[line + 1].hl =
                    [k \in 1..Len(@) |->
                       IF k <= Len(Ed.row[line + 1].render) THEN F.saved_hl[k] ELSE @[k]]]
            ELSE Ed
      F1 == [F EXCEPT !.saved_hl = NULL]
      F2 == IF key \in {CH_CR, CH_ESC}
              THEN [F1 EXCEPT !.last_match = -1, !.direction = 1]
            ELSE IF key \in {ARROW_RIGHT, ARROW_DOWN}
              THEN [F1 EXCEPT !.direction = 1]
            ELSE IF key \in {ARROW_LEFT, ARROW_UP}
              THEN [F1 EXCEPT !.direction = -1]
            ELSE [F1 EXCEPT !.direction = 1]
      F3 == IF F2.last_match = -1 THEN [F2 EXCEPT !.direction = 1] ELSE F2
  IN IF key \in {CH_CR, CH_ESC}
     THEN [E |-> E1, F |-> F2]
     ELSE FindLoop(E1, F3, query, 0, F3.last_match)

\* editorFindCallback without the memcpy that restores saved_hl.
editorFindCallback_NoRestore(Ed, F, query, key) ==
  LET F1 == [F EXCEPT !.saved_hl = NULL]
      F2 == IF key \in {CH_CR, CH_ESC}
              THEN [F1 EXCEPT !.last_match = -1, !.direction = 1]
            ELSE IF key \in {ARROW_RIGHT, ARROW_DOWN}
              THEN [F1 EXCEPT !.direction = 1]
            ELSE IF key \in {ARROW_LEFT, ARROW_UP}
              THEN [F1 EXCEPT !.direction = -1]
            ELSE [F1 EXCEPT !.last_match = -1, !.direction = 1]
      F3 == IF F2.last_match = -1 THEN [F2 EXCEPT !.direction = 1] ELSE F2
  IN IF key \in {CH_CR, CH_ESC}
     THEN [E |-> Ed, F |-> F2]
     ELSE FindLoop(Ed, F3, query, 0, F3.last_match)

\* editorFindCallback(query, key) on the editor state Ed and the statics F.
\* saved_hl of a row without render is malloc(0): whether or not that is NULL,
\* restoring it copies rsize = 0 bytes.
editorFindCallback(Ed, F, query, key) ==
  LET line == F.saved_hl_line
      E1 == IF F.saved_hl # NULL
            THEN [Ed EXCEPT !.row[line + 1].hl =
                    [k \in 1..Len(@) |->
                       IF k <= Len(Ed.row[line + 1].render) THEN F.saved_hl[k] ELSE @[k]]]
            ELSE Ed
      F1 == [F EXCEPT !.saved_hl = NULL]
      F2 == IF key \in {CH_CR, CH_ESC}
              THEN [F1 EXCEPT !.last_match = -1, !.direction = 1]
            ELSE IF key \in {ARROW_RIGHT, ARROW_DOWN}
              THEN [F1 EXCEPT !.direction = 1]
            ELSE IF key \in {ARROW_LEFT, ARROW_UP}
              THEN [F1 EXCEPT !.direction = -1]
            ELSE [F1 EXCEPT !.last_match = -1, !.direction = 1]
      F3 == IF F2.last_match = -1 THEN [F2 EXCEPT !.direction = 1] ELSE F2
  IN IF key \in {CH_CR, CH_ESC}
     THEN [E |-> E1, F |-> F2]
     ELSE FindLoop(E1, F3, query, 0, F3.last_match)

(***************************************************************************)
(* Input.                                                                  *)
(***************************************************************************)
\* What one read(STDIN_FILENO, &c, 1) gives: a character, nothing within
\* the VTIME timeout (0, or -1 with EAGAIN), or a failure (-1, other errno).
Char(c) == [nread |-> 1, c |-> c, eagain |-> FALSE]
Timeout == [nread |-> 0, c |-> 0, eagain |-> FALSE]
Again == [nread |-> -1, c |-> 0, eagain |-> TRUE]
Failure == [nread |-> -1, c |-> 0, eagain |-> FALSE]

\* What editorReadKey does after n reads: it returned key, it called die, or
\* it is in its next read.
Returns(n, key) == [n |-> n, status |-> "key", key |-> key]
Dies(n) == [n |-> n, status |-> "die", key |-> 0]
Reading(n) == [n |-> n, status |-> "read", key |-> 0]

\* TildeKey with case '7' and case '8' swapped.
TildeKey_SevenIsEnd(d) ==
  CASE d = 49 -> HOME_KEY
    [] d = 51 -> DEL_KEY
    [] d = 52 -> END_KEY
    [] d = 53 -> PAGE_UP
    [] d = 54 -> PAGE_DOWN
    [] d = 55 -> END_KEY
    [] d = 56 -> HOME_KEY
    [] OTHER -> CH_ESC

\* The switch on seq[1] after ESC [ digit ~.
TildeKey(d) ==
  CASE d = 49 -> HOME_KEY
    [] d = 51 -> DEL_KEY
    [] d = 52 -> END_KEY
    [] d = 53 -> PAGE_UP
    [] d = 54 -> PAGE_DOWN
    [] d = 55 -> HOME_KEY
    [] d = 56 -> END_KEY
    [] OTHER -> CH_ESC

\* The switch on seq[1] after ESC [.
BracketKey(l) ==
  CASE l = 65 -> ARROW_UP
    [] l = 66 -> ARROW_DOWN
    [] l = 67 -> ARROW_RIGHT
    [] l = 68 -> ARROW_LEFT
    [] l = 72 -> HOME_KEY
    [] l = 70 -> END_KEY
    [] OTHER -> CH_ESC

\* The switch on seq[1] after ESC O.
OKey(l) ==
  CASE l = 72 -> HOME_KEY
    [] l = 70 -> END_KEY
    [] OTHER -> CH_ESC

\* ReadTilde without the test seq[2] == '~'.
ReadTilde_AnyThird(rd, w, digit) ==
  IF w + 3 > Len(rd) THEN Reading(w + 3)
  ELSE IF rd[w + 3].nread # 1 THEN Returns(w + 3, CH_ESC)
  ELSE Returns(w + 3, TildeKey(digit))

\* The third read of an escape sequence, after ESC [ digit; it is read w + 3.
ReadTilde(rd, w, digit) ==
  IF w + 3 > Len(rd) THEN Reading(w + 3)
  ELSE IF rd[w + 3].nread # 1 THEN Returns(w + 3, CH_ESC)
  ELSE IF rd[w + 3].c = 126 THEN Returns(w + 3, TildeKey(digit))
  ELSE Returns(w + 3, CH_ESC)

\* The branch c == '\x1b' of editorReadKey, c being read w.
ReadSequence(rd, w) ==
  IF w + 1 > Len(rd) THEN Reading(w + 1)
  ELSE IF rd[w + 1].nread # 1 THEN Returns(w + 1, CH_ESC)
  ELSE IF w + 2 > Len(rd) THEN Reading(w + 2)
  ELSE IF rd[w + 2].nread # 1 THEN Returns(w + 2, CH_ESC)
  ELSE IF rd[w + 1].c = 91
    THEN IF rd[w + 2].c >= 48 /\ rd[w + 2].c <= 57
         THEN ReadTilde(rd, w, rd[w + 2].c)
         ELSE Returns(w + 2, BracketKey(rd[w + 2].c))
  ELSE IF rd[w + 1].c = 79 THEN Returns(w + 2, OKey(rd[w + 2].c))
  ELSE Returns(w + 2, CH_ESC)

\* The read that ends the while loop of editorReadKey: the first that gives
\* a character or fails.
LoopEnd(rd) ==
  Least({k \in 1..Len(rd) : rd[k].nread = 1 \/ (rd[k].nread = -1 /\ ~rd[k].eagain)},
        Len(rd) + 1)

\* editorReadKey when its reads give rd[1], rd[2], ... in order.
ReadFrom(rd, w) ==
  IF w > Len(rd) THEN Reading(w)
  ELSE IF rd[w].nread # 1 THEN Dies(w)
  ELSE IF rd[w].c = CH_ESC THEN ReadSequence(rd, w)
  ELSE Returns(w, rd[w].c)

editorReadKey(rd) == ReadFrom(rd, LoopEnd(rd))

editorMoveCursor(Ed, key) ==
  LET hasRow == Ed.cy < Ed.numrows
      size == IF hasRow THEN Len(Ed.row[Ed.cy + 1].chars) ELSE 0
      E1 == IF key = ARROW_LEFT
              THEN IF Ed.cx # 0 THEN [Ed EXCEPT !.cx = @ - 1]
                   ELSE IF Ed.cy > 0
                   THEN [Ed EXCEPT !.cy = @ - 1, !.cx = Len(Ed.row[Ed.cy].chars)]
                   ELSE Ed
            ELSE IF key = ARROW_RIGHT
              THEN IF hasRow /\ Ed.cx < size THEN [Ed EXCEPT !.cx = @ + 1]
                   ELSE IF hasRow /\ Ed.cx = size
                   THEN [Ed EXCEPT !.cy = @ + 1, !.cx = 0]
                   ELSE Ed
            ELSE IF key = ARROW_UP
              THEN IF Ed.cy # 0 THEN [Ed EXCEPT !.cy = @ - 1] ELSE Ed
            ELSE IF key = ARROW_DOWN
              THEN IF Ed.cy < Ed.numrows THEN [Ed EXCEPT !.cy = @ + 1] ELSE Ed
            ELSE Ed
      rowlen == IF E1.cy >= E1.numrows THEN 0 ELSE Len(E1.row[E1.cy + 1].chars)
  IN IF E1.cx > rowlen THEN [E1 EXCEPT !.cx = rowlen] ELSE E1

\* "while (times--) editorMoveCursor(key)".
RECURSIVE MoveTimes(_, _, _)
MoveTimes(Ed, key, times) ==
  IF times > 0 THEN MoveTimes(editorMoveCursor(Ed, key), key, times - 1) ELSE Ed

\* A file of bytes after ftruncate(fd, n): cut, or extended with NUL bytes.
Resized(bytes, n) == [k \in 1..n |-> IF k <= Len(bytes) THEN bytes[k] ELSE CH_NUL]

\* SaveWrite with E.dirty = 0 moved before the open.
SaveWrite_ClearsFirst(S, io) ==
  IF io = "ok"
  THEN [S EXCEPT !.E.dirty = 0, !.E.statusmsg = Msg("written", 0)]
  ELSE [S EXCEPT !.E.dirty = 0, !.E.statusmsg = Msg("Can't save", 0)]
\* WriteOut clearing E.dirty before it knows that the write succeeded.
WriteOut_CleanOnFailure(S, out, io) ==
  IF io = "ok"
  THEN [S EXCEPT !.E.dirty = 0,
                 !.E.statusmsg = Msg("written", out.buflen),
                 !.disk = SubSeq(out.buf, 1, out.buflen)]
  ELSE [S EXCEPT !.E.dirty = 0,
                 !.E.statusmsg = Msg("Can't save", 0),
                 !.disk = IF io = "write" THEN Resized(@, out.buflen) ELSE @]

\* open, ftruncate and write of editorSave on out, the result of
\* editorRowsToString.  io is what the file system does: "ok", or the call
\* that fails ("open", "ftruncate", or "write", which then writes nothing).
WriteOut(S, out, io) ==
  IF io = "ok"
  THEN [S EXCEPT !.E.dirty = 0,
                 !.E.statusmsg = Msg("written", out.buflen),
                 !.disk = SubSeq(out.buf, 1, out.buflen)]
  ELSE [S EXCEPT !.E.statusmsg = Msg("Can't save", 0),
                 !.disk = IF io = "write" THEN Resized(@, out.buflen) ELSE @]

\* The write half of editorSave (lines 671-690).
SaveWrite(S, io) == WriteOut(S, editorRowsToString(S.E), io)

\* The locals of editorFind outside editorFind.
NoSaved == [cx |-> 0, cy |-> 0, coloff |-> 0, rowoff |-> 0]

\* PromptReturn with editorFind not restoring the cursor on a NULL query.
PromptReturn_NoRestore(S, result, io) ==
  LET back == [S EXCEPT !.mode = "edit", !.buf = <<>>, !.saved = NoSaved,
                        !.quit_times = KILO_QUIT_TIMES]
  IN IF S.mode = "find" THEN back
     ELSE IF result = NULL
          THEN [back EXCEPT !.E.filename = NULL, !.E.statusmsg = Msg("Save aborted", 0)]
          ELSE SaveWrite(
                 [back EXCEPT !.E = editorSelectSyntaxHighlight(
                                      [S.E EXCEPT !.filename = result])], io)

\* What the caller of editorPrompt does with its result (NULL on escape), and
\* the end of editorProcessKeypress for the key that opened the prompt.
PromptReturn(S, result, io) ==
  LET back == [S EXCEPT !.mode = "edit", !.buf = <<>>, !.saved = NoSaved,
                        !.quit_times = KILO_QUIT_TIMES]
  IN IF S.mode = "find"
     THEN IF result # NULL THEN back
          ELSE [back EXCEPT !.E.cx = S.saved.cx, !.E.cy = S.saved.cy,
                            !.E.coloff = S.saved.coloff,
                            !.E.rowoff = S.saved.rowoff]
     ELSE IF result = NULL
          THEN [back EXCEPT !.E.filename = NULL, !.E.statusmsg = Msg("Save aborted", 0)]
          ELSE SaveWrite(
                 [back EXCEPT !.E = editorSelectSyntaxHighlight(
                                      [S.E EXCEPT !.filename = result])], io)

\* The callback of the prompt: editorFindCallback for the search, none for
\* the save-as prompt.
Found(S, r) == [S EXCEPT !.E = r.E, !.F = r.F]

PromptCallback(S, c) ==
  IF S.mode = "find" THEN Found(S, editorFindCallback(S.E, S.F, S.buf, c)) ELSE S

\* What key c does in editorPrompt before the callback runs: it edits buf,
\* or, on escape and on Enter with a non-empty buf, clears the status message.
PromptKey(S, c) ==
  IF c \in {DEL_KEY, CTRL_H, BACKSPACE}
  THEN IF Len(S.buf) # 0
       THEN [S EXCEPT !.buf = SubSeq(S.buf, 1, Len(S.buf) - 1)] ELSE S
  ELSE IF c = CH_ESC THEN [S EXCEPT !.E.statusmsg = Msg("", 0)]
  ELSE IF c = CH_CR
  THEN IF Len(S.buf) # 0 THEN [S EXCEPT !.E.statusmsg = Msg("", 0)] ELSE S
  ELSE IF ~iscntrl(c) /\ c < 128 THEN [S EXCEPT !.buf = Append(S.buf, c)]
  ELSE S

\* After the callback: editorPrompt returns NULL on escape and buf on Enter
\* with a non-empty buf, and loops otherwise.
PromptLeave(S, c, io) ==
  IF c = CH_ESC \/ (c = CH_CR /\ Len(S.buf) # 0)
  THEN PromptReturn(S, IF c = CH_ESC THEN NULL ELSE S.buf, io)
  ELSE S

\* One iteration of the loop of editorPrompt after its refresh, on key c: on
\* every path the callback runs once, after the key's effect on buf.
editorPrompt(S, c, io) ==
  PromptLeave(PromptCallback(PromptKey(S, c), c), c, io)

editorFind(S) ==
  [S EXCEPT !.mode = "find", !.buf = <<>>,
            !.saved = [cx |-> S.E.cx, cy |-> S.E.cy,
                       coloff |-> S.E.coloff, rowoff |-> S.E.rowoff]]

editorSave(S, io) ==
  IF S.E.filename = NULL
  THEN [S EXCEPT !.mode = "save", !.buf = <<>>]
  ELSE [SaveWrite(S, io) EXCEPT !.quit_times = KILO_QUIT_TIMES]

\* editorProcessKeypress without the reset of quit_times at its end.
editorProcessKeypress_NoReset(S, c, io) ==
  LET Ed == S.E
      Done(E1) == [S EXCEPT !.E = E1]
  IN IF c = CH_CR THEN Done(editorInsertNewline(Ed))
     ELSE IF c = CTRL_Q
       THEN IF Ed.dirty # 0 /\ S.quit_times > 0
            THEN [S EXCEPT !.E.statusmsg = Msg("WARNING", S.quit_times),
                           !.quit_times = @ - 1]
            ELSE [S EXCEPT !.running = FALSE]
     ELSE IF c = CTRL_S THEN editorSave(S, io)
     ELSE IF c = HOME_KEY THEN Done([Ed EXCEPT !.cx = 0])
     ELSE IF c = END_KEY
       THEN Done(IF Ed.cy < Ed.numrows
                 THEN [Ed EXCEPT !.cx = Len(Ed.row[Ed.cy + 1].chars)] ELSE Ed)
     ELSE IF c = CTRL_F THEN editorFind(S)
     ELSE IF c \in {BACKSPACE, CTRL_H, DEL_KEY}
       THEN Done(editorDelChar(IF c = DEL_KEY
                               THEN editorMoveCursor(Ed, ARROW_RIGHT) ELSE Ed))
     ELSE IF c \in {PAGE_UP, PAGE_DOWN}
       THEN LET E1 == IF c = PAGE_UP THEN [Ed EXCEPT !.cy = Ed.rowoff]
                      ELSE LET cy == Ed.rowoff + Ed.screenrows - 1
                           IN [Ed EXCEPT !.cy = IF cy > Ed.numrows
                                                THEN Ed.numrows ELSE cy]
            IN Done(MoveTimes(E1, IF c = PAGE_UP THEN ARROW_UP ELSE ARROW_DOWN,
                              Ed.screenrows))
     ELSE IF c \in {ARROW_UP, ARROW_DOWN, ARROW_LEFT, ARROW_RIGHT}
       THEN Done(editorMoveCursor(Ed, c))
     ELSE IF c \in {CTRL_L, CH_ESC} THEN Done(Ed)
     ELSE Done(editorInsertChar(Ed, c))

\* editorProcessKeypress on key c, the editor not being in a prompt.
editorProcessKeypress(S, c, io) ==
  LET Ed == S.E
      Done(E1) == [S EXCEPT !.E = E1, !.quit_times = KILO_QUIT_TIMES]
  IN IF c = CH_CR THEN Done(editorInsertNewline(Ed))
     ELSE IF c = CTRL_Q
       THEN IF Ed.dirty # 0 /\ S.quit_times > 0
            THEN [S EXCEPT !.E.statusmsg = Msg("WARNING", S.quit_times),
                           !.quit_times = @ - 1]
            ELSE [S EXCEPT !.running = FALSE]
     ELSE IF c = CTRL_S THEN editorSave(S, io)
     ELSE IF c = HOME_KEY THEN Done([Ed EXCEPT !.cx = 0])
     ELSE IF c = END_KEY
       THEN Done(IF Ed.cy < Ed.numrows
                 THEN [Ed EXCEPT !.cx = Len(Ed.row[Ed.cy + 1].chars)] ELSE Ed)
     ELSE IF c = CTRL_F THEN editorFind(S)
     ELSE IF c \in {BACKSPACE, CTRL_H, DEL_KEY}
       THEN Done(editorDelChar(IF c = DEL_KEY
                               THEN editorMoveCursor(Ed, ARROW_RIGHT) ELSE Ed))
     ELSE IF c \in {PAGE_UP, PAGE_DOWN}
       THEN LET E1 == IF c = PAGE_UP THEN [Ed EXCEPT !.cy = Ed.rowoff]
                      ELSE LET cy == Ed.rowoff + Ed.screenrows - 1
                           IN [Ed EXCEPT !.cy = IF cy > Ed.numrows
                                                THEN Ed.numrows ELSE cy]
            IN Done(MoveTimes(E1, IF c = PAGE_UP THEN ARROW_UP ELSE ARROW_DOWN,
                              Ed.screenrows))
     ELSE IF c \in {ARROW_UP, ARROW_DOWN, ARROW_LEFT, ARROW_RIGHT}
       THEN Done(editorMoveCursor(Ed, c))
     ELSE IF c \in {CTRL_L, CH_ESC} THEN Done(Ed)
     ELSE Done(editorInsertChar(Ed, c))

\* From the end of a key's handling to the next editorReadKey: the loop of
\* main (editorRefreshScreen) or, in a prompt, the loop of editorPrompt
\* (editorSetStatusMessage; editorRefreshScreen).  Nothing after exit(0).
Refreshed(S) == [S EXCEPT !.term = CursorEscape(S.E)]

AwaitKey(S) ==
  IF ~S.running THEN S
  ELSE Refreshed(
         [S EXCEPT !.E = editorRefreshScreen(
                           IF S.mode = "edit" THEN @
                           ELSE editorSetStatusMessage(@, IF S.mode = "find"
                                                          THEN "Search" ELSE "Save as"))])

\* The program between two returns of editorReadKey: it handles key c, in
\* editorProcessKeypress or in the prompt that is open, and comes back to
\* wait for the next key.
Press(S, c, io) ==
  AwaitKey(IF S.mode = "edit"
           THEN editorProcessKeypress(S, c, io)
           ELSE editorPrompt(S, c, io))

\* initEditor, for a window that leaves screenrows text rows.
initEditor(screenrows, screencols) ==
  [cx |-> 0, cy |-> 0, rx |-> 0, rowoff |-> 0, coloff |-> 0,
   screenrows |-> screenrows, screencols |-> screencols,
   numrows |-> 0, row |-> <<>>, dirty |-> 0, filename |-> NULL,
   statusmsg |-> Msg("", 0), syntax |-> NoSyntax]

\* main up to the first editorRefreshScreen; argv1 is NULL when argc < 2.
main(screenrows, screencols, argv1, bytes) ==
  LET E0 == initEditor(screenrows, screencols)
      E1 == IF argv1 # NULL THEN editorOpen(E0, argv1, bytes) ELSE E0
  IN editorRefreshScreen(editorSetStatusMessage(E1, "HELP"))

(***************************************************************************)
(* The state machine.                                                      *)
(***************************************************************************)
VARIABLES
  E,           \* struct editorConfig E
  mode,        \* where the program waits for a key: "edit" (main's loop),
               \* "find" or "save" (the loop of editorPrompt under editorFind
               \* or editorSave)
  buf,         \* buf of editorPrompt
  F,           \* the statics of editorFindCallback
  saved,       \* saved_cx, saved_cy, saved_coloff, saved_rowoff of editorFind
  quit_times,  \* the static of editorProcessKeypress
  running,     \* FALSE once exit(0) was called
  user,        \* the session's input: the keys its user presses while editing
               \* and in a prompt, and what the file system does on a save
  disk,        \* the bytes of the file the editor opens and saves
  term,        \* the terminal's cursor: the row and column the last
               \* editorRefreshScreen wrote
  tty          \* the terminal under editorReadKey: reads, what its calls of
               \* read give in order, and got, what editorReadKey did

vars == <<E, mode, buf, F, saved, quit_times, running, user, disk, term, tty>>

\* Bounds of the exploration.
MaxRows == 3
MaxChars == 14
MaxDirty == 2
MaxBuf == 3
MaxReads == 5
MaxFile == 5
MaxScan == 5
MaxWord == 4
MaxDraw == 4

Arrows == {ARROW_LEFT, ARROW_RIGHT, ARROW_UP, ARROW_DOWN}
Handled ==
  {CH_CR, CTRL_Q, CTRL_S, HOME_KEY, END_KEY, CTRL_F, BACKSPACE, CTRL_H,
   DEL_KEY, PAGE_UP, PAGE_DOWN, CTRL_L, CH_ESC} \cup Arrows

\* The sessions explored: the window, the file named on the command line
\* (argv1 = NULL for none, bytes its content) and what the user does.
Moves == Arrows \cup {HOME_KEY, END_KEY, PAGE_UP, PAGE_DOWN}

Session(screenrows, screencols, argv1, bytes, keys, prompt, io) ==
  [screenrows |-> screenrows, screencols |-> screencols, argv1 |-> argv1,
   bytes |-> bytes, keys |-> keys, prompt |-> prompt, io |-> io]

\* "a.c": comment markers typed into a C file.
CommentSessions ==
  { Session(4, 8, <<97, 46, 99>>, b,
            {47, 42, CH_CR, BACKSPACE, DEL_KEY} \cup Arrows,
            {}, {"ok"}) :
      b \in { <<>>,                          \* an empty file
              <<47, 42, 10, 120, 10>>,       \* "/*\nx\n"
              <<34, 47, 42, 10, 120, 10>> }} \* "\"/*\nx\n"

\* "t": tabs and letters in a plain file, in a window smaller than the text.
TabSessions ==
  { Session(1, 4, <<116>>, <<9, 97, 10, 9, 10>>,     \* "\ta\n\t\n"
            {CH_TAB, 97, CH_CR, BACKSPACE, DEL_KEY, CTRL_L} \cup Moves,
            {}, {"ok"}) }

\* "k.c": keywords next to separators, letters and quotes.
KeywordSessions ==
  { Session(4, 8, <<107, 46, 99>>, b,
            {120, CH_DQUOTE, BACKSPACE, ARROW_LEFT, ARROW_RIGHT},
            {}, {"ok"}) :
      b \in { <<105, 110, 116, 32, 120, 10>>,       \* "int x\n"
              <<34, 34, 105, 110, 116, 10>> }}      \* "\"\"int\n"

\* "s.c": a search over the rows foo, bar foo, baz, or over rows with a tab.
FindSessions ==
  { Session(2, 4, <<115, 46, 99>>, b,
            {CTRL_F, ARROW_DOWN, END_KEY, CH_ESC},
            {102, 111, CH_CR, CH_ESC, BACKSPACE} \cup Arrows, {"ok"}) :
      b \in { <<102, 111, 111, 10, 98, 97, 114, 32, 102, 111, 111, 10,
                98, 97, 122, 10>>,                  \* "foo\nbar foo\nbaz\n"
              <<9, 111, 102, 10, 47, 42, 102, 10>> }} \* "\tof\n/*f\n"

\* A buffer saved: unnamed at first and named in the save-as prompt, or
\* opened from the empty file "a.c"; the file system may fail.
SaveSessions ==
  { Session(2, 4, NULL, <<>>,
            {47, CTRL_S, CTRL_Q},
            {46, 99, CH_CR, CH_ESC, DEL_KEY},
            {"ok", "open", "ftruncate", "write"}),
    Session(2, 4, <<97, 46, 99>>, <<>>,
            {47, CTRL_H, CTRL_S, CTRL_Q},
            {},
            {"ok", "open", "ftruncate", "write"}) }

\* "t": a file of up to MaxFile bytes out of a, CR and LF, or the file
\* a CR LF b LF, opened and saved.
Files ==
  UNION {[1..n -> {97, CH_CR, CH_LF}] : n \in 0..MaxFile}
    \cup {<<97, CH_CR, CH_LF, 98, CH_LF>>}

FileSessions ==
  { Session(2, 4, <<116>>, b, {CTRL_S}, {}, {"ok"}) : b \in Files }

\* A terminal of two rows, which leaves no text row (screenrows = 0), with
\* no file or with "t".
BarSessions ==
  { Session(0, 8, a, <<9, 97, 10, 9, 10>>,
            {PAGE_UP, PAGE_DOWN, ARROW_UP, ARROW_DOWN}, {}, {"ok"}) :
      a \in { NULL, <<116>> } }

Sessions ==
  CommentSessions \cup TabSessions \cup KeywordSessions \cup FindSessions
    \cup SaveSessions \cup FileSessions \cup BarSessions

State ==
  [E |-> E, mode |-> mode, buf |-> buf, F |-> F, saved |-> saved,
   quit_times |-> quit_times, running |-> running, disk |-> disk,
   term |-> term]

Becomes(S) ==
  /\ E' = S.E
  /\ mode' = S.mode
  /\ buf' = S.buf
  /\ F' = S.F
  /\ saved' = S.saved
  /\ quit_times' = S.quit_times
  /\ running' = S.running
  /\ disk' = S.disk
  /\ term' = S.term
  /\ UNCHANGED <<user, tty>>

TotalChars(Ed) ==
  LET RECURSIVE Sum(_)
      Sum(j) == IF j = 0 THEN 0 ELSE Len(Ed.row[j].chars) + Sum(j - 1)
  IN Sum(Len(Ed.row))

Start(s) ==
    /\ E = main(s.screenrows, s.screencols, s.argv1, s.bytes)
    /\ mode = "edit"
    /\ buf = <<>>
    /\ F = FindInit
    /\ saved = NoSaved
    /\ quit_times = KILO_QUIT_TIMES
    /\ running = TRUE
    /\ user = [keys |-> s.keys, prompt |-> s.prompt, io |-> s.io,
               bytes |-> s.bytes]
    /\ disk = s.bytes
    /\ term = CursorEscape(E)
    /\ tty = [reads |-> <<>>, got |-> Reading(0)]

Init == \E s \in Sessions : Start(s)

Editing == running /\ mode = "edit"
Prompting == running /\ mode # "edit"

\* A key of the default case: editorInsertChar.
KeyInsert ==
  /\ Editing
  /\ E.dirty < MaxDirty
  /\ TotalChars(E) < MaxChars
  /\ E.cy = E.numrows => E.numrows < MaxRows
  /\ \E c \in user.keys \ Handled : Becomes(Press(State, c, "ok"))

KeyNewline ==
  /\ Editing
  /\ E.dirty < MaxDirty
  /\ E.numrows < MaxRows
  /\ CH_CR \in user.keys
  /\ Becomes(Press(State, CH_CR, "ok"))

KeyErase ==
  /\ Editing
  /\ E.dirty < MaxDirty
  /\ \E c \in user.keys \cap {BACKSPACE, CTRL_H, DEL_KEY} :
       Becomes(Press(State, c, "ok"))

KeyMove ==
  /\ Editing
  /\ E.cy <= MaxRows
  /\ \E c \in user.keys \cap Moves :
       Becomes(Press(State, c, "ok"))

KeyIgnored ==
  /\ Editing
  /\ \E c \in user.keys \cap {CTRL_L, CH_ESC} : Becomes(Press(State, c, "ok"))

KeyFind ==
  /\ Editing
  /\ CTRL_F \in user.keys
  /\ Becomes(Press(State, CTRL_F, "ok"))

KeySave ==
  /\ Editing
  /\ CTRL_S \in user.keys
  /\ \E io \in user.io : Becomes(Press(State, CTRL_S, io))

KeyQuit ==
  /\ Editing
  /\ CTRL_Q \in user.keys
  /\ Becomes(Press(State, CTRL_Q, "ok"))

\* A printable key in a prompt: appended to buf.
PromptType ==
  /\ Prompting
  /\ Len(buf) < MaxBuf
  /\ \E c \in {k \in user.prompt : ~iscntrl(k) /\ k < 128} :
       Becomes(Press(State, c, "ok"))

\* Enter or escape in a prompt; Enter on a typed name saves under it.
PromptEnd ==
  /\ Prompting
  /\ \E c \in user.prompt \cap {CH_CR, CH_ESC} :
       \E io \in user.io : Becomes(Press(State, c, io))

\* Any other key in a prompt: erasing keys, arrows, control keys.
PromptOther ==
  /\ Prompting
  /\ \E c \in {k \in user.prompt : (iscntrl(k) \/ k >= 128) /\ k \notin {CH_CR, CH_ESC}} :
       Becomes(Press(State, c, "ok"))

Next ==
  \/ KeyInsert
  \/ KeyNewline
  \/ KeyErase
  \/ KeyMove
  \/ KeyIgnored
  \/ KeyFind
  \/ KeySave
  \/ KeyQuit
  \/ PromptType
  \/ PromptEnd
  \/ PromptOther

Spec == Init /\ [][Next]_vars

(***************************************************************************)
(* The sessions of Spec that edit rows, on their own.                      *)
(***************************************************************************)
EditSessions == CommentSessions \cup TabSessions

EditInit == \E s \in EditSessions : Start(s)

EditNext ==
  \/ KeyInsert
  \/ KeyNewline
  \/ KeyErase
  \/ KeyMove
  \/ KeyIgnored

EditSpec == EditInit /\ [][EditNext]_vars

(***************************************************************************)
(* The sessions of Spec that search, on their own.                         *)
(***************************************************************************)
SearchInit == \E s \in FindSessions : Start(s)

SearchNext ==
  \/ KeyMove
  \/ KeyIgnored
  \/ KeyFind
  \/ PromptType
  \/ PromptEnd
  \/ PromptOther

SearchSpec == SearchInit /\ [][SearchNext]_vars

(***************************************************************************)
(* The scanner on its own: "c.c" holds one line of up to MaxScan quotes,   *)
(* slashes and stars, alone or after the line "//"/* that opens a comment  *)
(* behind a string, and the user types more of them in front or erases     *)
(* them.                                                                   *)
(***************************************************************************)
ScanTexts == UNION {[1..n -> {CH_DQUOTE, 47, 42}] : n \in 0..MaxScan}

ScanSessions ==
  { Session(4, 8, <<99, 46, 99>>, pre \o t \o <<CH_LF>>,
            {CH_DQUOTE, 47, 42, BACKSPACE}, {}, {"ok"}) :
      pre \in { <<>>, <<CH_DQUOTE, 47, 47, CH_DQUOTE, 47, 42, CH_LF>> },
      t \in ScanTexts }

ScanInit == \E s \in ScanSessions : Start(s)

ScanNext ==
  \/ KeyInsert
  \/ KeyErase

ScanSpec == ScanInit /\ [][ScanNext]_vars

(***************************************************************************)
(* The scanner under other descriptors: "w" holds one line of up to        *)
(* MaxWord characters out of a, b, dot and space, and the descriptor that  *)
(* is selected has the fields of HLDB[0] with another list of keywords,    *)
(* some of which contain a separator.  user.syntax is NULL or holds the    *)
(* descriptor that E.syntax points at.                                     *)
(***************************************************************************)
WordTexts == UNION {[1..n -> {97, 98, CH_DOT, CH_SPACE}] : n \in 1..MaxWord}

\* a, a.b (a type keyword), b (a type keyword) and a.b.a
WordPool ==
  { <<97>>, <<97, CH_DOT, 98, CH_PIPE>>, <<98, CH_PIPE>>,
    <<97, CH_DOT, 98, CH_DOT, 97>> }

\* The keyword lists: up to three keywords of the pool in any order, and the
\* list of HLDB[0].
KeywordLists ==
  {kws \in UNION {[1..n -> WordPool] : n \in 1..3} :
     \A a, b \in 1..Len(kws) : kws[a] = kws[b] => a = b}
    \cup {C_HL_keywords}

WordInit ==
  \E t \in WordTexts :
    /\ E = main(4, 8, <<119>>, t \o <<CH_LF>>)
    /\ mode = "edit"
    /\ buf = <<>>
    /\ F = FindInit
    /\ saved = NoSaved
    /\ quit_times = KILO_QUIT_TIMES
    /\ running = TRUE
    /\ user = [keys |-> {}, prompt |-> {}, io |-> {}, bytes |-> t \o <<CH_LF>>,
               syntax |-> NULL]
    /\ disk = t \o <<CH_LF>>
    /\ term = CursorEscape(E)
    /\ tty = [reads |-> <<>>, got |-> Reading(0)]

\* E.syntax = s followed by editorUpdateSyntax on every row (lines 400-406),
\* for a descriptor s with the keywords kws.
SelectDescriptor ==
  /\ running /\ user.syntax = NULL
  /\ \E kws \in KeywordLists :
       LET syn == [HLDB[1] EXCEPT !.keywords = kws]
       IN /\ user' = [user EXCEPT !.syntax = <<syn>>]
          /\ E' = [E EXCEPT !.row =
                     [j \in 1..Len(E.row) |->
                        [E.row[j] EXCEPT !.hl =
                           ScanFrom(syn, E.row[j].render, 0,
                                    [k \in 1..Len(E.row[j].render) |-> HL_NORMAL],
                                    TRUE, 0, FALSE).hl]]]
  /\ UNCHANGED <<mode, buf, F, saved, quit_times, running, disk, term, tty>>

WordNext ==
  \/ SelectDescriptor

WordSpec == WordInit /\ [][WordNext]_vars

(***************************************************************************)
(* The text rows of the screen: "d.c" is empty or holds one line of up to  *)
(* MaxDraw characters out of Ctrl-A, DEL, slash, the digit 1, a and the    *)
(* double quote, in a window of 3 columns that the cursor scrolls.         *)
(***************************************************************************)
DrawTexts == UNION {[1..n -> {1, 127, 47, 49, 97, CH_DQUOTE}] : n \in 0..MaxDraw}

DrawSessions ==
  { Session(2, 3, <<100, 46, 99>>, b,
            {ARROW_LEFT, ARROW_RIGHT, HOME_KEY, END_KEY}, {}, {"ok"}) :
      b \in {<<>>} \cup {t \o <<CH_LF>> : t \in DrawTexts} }

DrawInit == \E s \in DrawSessions : Start(s)

DrawNext ==
  \/ KeyMove

DrawSpec == DrawInit /\ [][DrawNext]_vars

(***************************************************************************)
(* editorReadKey alone: the terminal delivers the results of the reads of  *)
(* one call, and the call returns a key or ends the program in die.  Spec  *)
(* above takes its keys as editorReadKey returns them.                     *)
(***************************************************************************)
\* The characters a terminal sends here: ESC [ O ~, the digits, the letters
\* of the sequences and Z, and NUL, Enter, a and DEL.
TtyChars ==
  {CH_ESC, 91, 79, 126} \cup (48..57) \cup {65, 66, 67, 68, 70, 72, 90}
    \cup {CH_NUL, CH_CR, 97, 127}

ReadResults == {Char(c) : c \in TtyChars} \cup {Timeout, Again, Failure}

\* The read results that take one call of editorReadKey to its end within k
\* more reads, P being the results it is still reading after.
RECURSIVE Runs(_, _)
Runs(P, k) ==
  LET done == {rd \in P : editorReadKey(rd).status # "read"}
  IN done \cup (IF k = 0 THEN {}
                ELSE Runs({Append(rd, r) : rd \in P \ done, r \in ReadResults},
                          k - 1))

TtyRuns == Runs({<<>>}, MaxReads)

ReadInit ==
  /\ E = main(1, 8, NULL, <<>>)
  /\ mode = "edit"
  /\ buf = <<>>
  /\ F = FindInit
  /\ saved = NoSaved
  /\ quit_times = KILO_QUIT_TIMES
  /\ running = TRUE
  /\ user = [keys |-> {}, prompt |-> {}, io |-> {}, bytes |-> <<>>]
  /\ disk = <<>>
  /\ term = CursorEscape(E)
  /\ \E rd \in TtyRuns : tty = [reads |-> rd, got |-> Reading(0)]

\* editorReadKey returns a key.
ReadKeyReturns ==
  /\ running
  /\ tty.got.status = "read"
  /\ editorReadKey(tty.reads).status = "key"
  /\ tty' = [tty EXCEPT !.got = editorReadKey(tty.reads)]
  /\ UNCHANGED <<E, mode, buf, F, saved, quit_times, running, user, disk, term>>

\* editorReadKey calls die("read"), which exits.
ReadKeyDies ==
  /\ running
  /\ tty.got.status = "read"
  /\ editorReadKey(tty.reads).status = "die"
  /\ tty' = [tty EXCEPT !.got = editorReadKey(tty.reads)]
  /\ running' = FALSE
  /\ UNCHANGED <<E, mode, buf, F, saved, quit_times, user, disk, term>>

ReadNext ==
  \/ ReadKeyReturns
  \/ ReadKeyDies

ReadKeySpec == ReadInit /\ [][ReadNext]_vars

(***************************************************************************)
(* Properties.                                                             *)
(***************************************************************************)
\* The chars of every row, in order.
RowChars(Ed) == [j \in 1..Len(Ed.row) |-> Ed.row[j].chars]

\* What a scan of row j (C index) of Ed yields when seeded with the stored
\* hl_open_comment of the row before it.
FreshScan(Ed, j) ==
  ScanRow(Ed.syntax, Ed.row[j + 1].render,
          j > 0 /\ Ed.row[j].hl_open_comment, FALSE)

\* No search match is painted over a row's highlight.
NoOverlay == F.saved_hl = NULL

\* C1: with a syntax descriptor active and no search overlay, every row's
\* stored highlight array and hl_open_comment are those of a scan of its
\* current render seeded with the stored hl_open_comment of the row before it.
C1_HighlightCurrent ==
  (E.syntax # NoSyntax /\ NoOverlay) =>
    \A j \in 0..(E.numrows - 1) :
      /\ E.row[j + 1].hl = FreshScan(E, j).hl
      /\ E.row[j + 1].hl_open_comment = FreshScan(E, j).in_comment

\* A keystroke that changed the chars of one row and left the row count alone
\* (a character typed into, or erased from, row n).
CharEdited(n) ==
  /\ Editing /\ E.syntax # NoSyntax
  /\ E'.numrows = E.numrows
  /\ n < E.numrows
  /\ E'.row[n + 1].chars # E.row[n + 1].chars

\* C2, for a character edit of row n: each row after n is rescanned, seeded
\* with the new flag of the row before it, as long as every row from n up to
\* that one changed its flag; the rows after the first unchanged flag are left
\* as they were.
C2_CharEditCascade ==
  \A n \in 0..(E.numrows - 1) :
    CharEdited(n) =>
      \A k \in (n + 1)..(E.numrows - 1) :
        IF \A m \in n..(k - 1) :
             E'.row[m + 1].hl_open_comment # E.row[m + 1].hl_open_comment
        THEN /\ E'.row[k + 1].hl = FreshScan(E', k).hl
             /\ E'.row[k + 1].hl_open_comment = FreshScan(E', k).in_comment
        ELSE E'.row[k + 1] = E.row[k + 1]

\* C2, for a row inserted at p (Enter): the fresh row starts with its flag
\* clear, so a set flag is a changed flag, and the row after it, when there
\* is one, is scanned as already in a comment.
C2_RowInsertCascade ==
  LET p == IF E.cx = 0 THEN E.cy ELSE E.cy + 1
  IN (/\ Editing /\ E.syntax # NoSyntax
      /\ E'.numrows = E.numrows + 1
      /\ p + 1 < E'.numrows
      /\ E'.row[p + 1].hl_open_comment)
     => E'.row[p + 2].hl = FreshScan(E', p + 1).hl

\* C2: when recomputing row N changes its hl_open_comment and row N + 1
\* exists, row N + 1 is recomputed in the same operation with the new flag
\* of row N as its seed, and so on forward until a flag comes out unchanged.
C2_Cascade == [][C2_CharEditCascade /\ C2_RowInsertCascade]_vars

\* C2 on character edits alone.
C2_CascadeOnCharEdits == [][C2_CharEditCascade]_vars

\* A closer typed into row 0, whose open comment reached row 1: row 0 is
\* "/**/" with its flag clear, row 1 is "x" and scanned afresh.
C2_Witness ==
  /\ E.numrows = 2
  /\ E.row[1].chars = <<47, 42, 42, 47>>
  /\ ~E.row[1].hl_open_comment
  /\ E.row[2].hl = <<HL_NORMAL>>

\* C3: every row's idx is its position in E.row, which holds numrows rows.
C3_IndexIsPosition ==
  /\ Len(E.row) = E.numrows
  /\ \A j \in 1..Len(E.row) : E.row[j].idx = j - 1

\* An empty row inserted above "/*" and "x" by Enter at column 0
\* (editorInsertRow), then joined with "/*" by Backspace at column 0 of
\* that row (editorDelRow).
C3_Witness ==
  /\ RowChars(E) = << <<47, 42>>, <<120>> >>
  /\ E.cx = 0 /\ E.cy = 0
  /\ E.dirty = 3

\* C4: 0 <= cy <= numrows and 0 <= cx <= the length of row cy, which is 0
\* one past the last row.
C4_CursorInBounds ==
  /\ 0 <= E.cy /\ E.cy <= E.numrows
  /\ 0 <= E.cx
  /\ E.cx <= (IF E.cy < E.numrows THEN Len(E.row[E.cy + 1].chars) ELSE 0)

\* C4 in a window that has a text row.
C4_InBoundsWithTextRow == E.screenrows >= 1 => C4_CursorInBounds

\* C5: for an existing row cy and any cx, Enter and then Backspace leave the
\* number of rows and every row's chars as they were and bring the cursor
\* back to (cx, cy).
C5_SplitJoinRoundTrip ==
  (Editing /\ E.cy < E.numrows) =>
    LET T == Press(Press(State, CH_CR, "ok"), BACKSPACE, "ok")
    IN /\ T.E.numrows = E.numrows
       /\ RowChars(T.E) = RowChars(E)
       /\ T.E.cx = E.cx /\ T.E.cy = E.cy

\* Row "/*" of the file "/*\nx\n" split at column 1 and joined again: the
\* chars are those of the file and dirty counts the three changes.
C5_Witness ==
  /\ RowChars(E) = << <<47, 42>>, <<120>> >>
  /\ E.cx = 1 /\ E.cy = 0
  /\ E.dirty = 3

\* C6: inserting a character at position k of a row and then deleting at
\* position k leaves the row's chars and length as before the insert (the
\* row and k are the cursor's, which reaches every position of every row).
C6_InsertDeleteRoundTrip ==
  E.cy < E.numrows =>
    \A c \in {42, 97} :
      \A E1 \in {editorRowInsertChar(E, E.cy, E.cx, c)} :
        \A E2 \in {editorRowDelChar(E1, E.cy, E.cx)} :
          /\ Len(E1.row[E.cy + 1].chars) = Len(E.row[E.cy + 1].chars) + 1
          /\ E1.row[E.cy + 1].chars[E.cx + 1] = c
          /\ Len(E2.row[E.cy + 1].chars) = Len(E.row[E.cy + 1].chars)
          /\ RowChars(E2) = RowChars(E)

\* A character typed into the file "/*\nx\n" and erased again.
C6_Witness ==
  /\ RowChars(E) = << <<47, 42>>, <<120>> >>
  /\ E.cx = 1 /\ E.cy = 0
  /\ E.dirty = 2

\* The rows whose render contains the query.
Matching(Ed, query) ==
  {r \in 0..(Ed.numrows - 1) : strstr(Ed.row[r + 1].render, query) # -1}

\* The first matching row met from row from, stepping dir and wrapping.
NextMatch(Ed, query, from, dir) ==
  LET at(d) == (from + dir * d) % Ed.numrows
      d0 == CHOOSE d \in 1..Ed.numrows :
              /\ at(d) \in Matching(Ed, query)
              /\ \A e \in 1..(d - 1) : at(e) \notin Matching(Ed, query)
  IN at(d0)

\* The cursor is on row r, on the character whose render holds the first
\* occurrence of the query in that row.
OnMatch(Ed, query, r) ==
  LET row == Ed.row[r + 1]
      off == strstr(row.render, query)
  IN /\ Ed.cy = r
     /\ Ed.cx <= Len(row.chars)
     /\ editorRowCxToRx(row, Ed.cx) <= off
     /\ Ed.cx < Len(row.chars) => off < editorRowCxToRx(row, Ed.cx + 1)

FooRows ==
  << <<102, 111, 111>>, <<98, 97, 114, 32, 102, 111, 111>>, <<98, 97, 122>> >>

\* C7: in a search with a match, a right/down arrow moves the match to the
\* next row, cyclically, whose render contains the query, a left/up arrow to
\* the previous one, and the cursor goes to the match; over foo, bar foo, baz
\* the query foo matches row 0 first, then row 1, then row 0, and a backward
\* step from row 1 lands on row 0.
C7_SearchSteps ==
  /\ (running /\ mode = "find" /\ F.last_match # -1) =>
       \A key \in Arrows :
         LET dir == IF key \in {ARROW_RIGHT, ARROW_DOWN} THEN 1 ELSE -1
             T == Press(State, key, "ok")
             r == NextMatch(E, buf, F.last_match, dir)
         IN /\ T.F.last_match = r
            /\ OnMatch(T.E, buf, r)
  /\ (running /\ mode = "find" /\ RowChars(E) = FooRows) =>
       /\ buf = <<102, 111>> =>
            LET T == Press(State, 111, "ok")
            IN T.F.last_match = 0 /\ T.E.cy = 0 /\ T.E.cx = 0
       /\ buf = <<102, 111, 111>> =>
            /\ F.last_match \in {0, 1}
            /\ Press(State, ARROW_RIGHT, "ok").F.last_match = 1 - F.last_match
            /\ Press(State, ARROW_LEFT, "ok").F.last_match = 1 - F.last_match
            /\ E.cy = F.last_match
            /\ E.cx = (IF F.last_match = 0 THEN 0 ELSE 4)

\* The search for foo stepped forward to row 1 and then backward to row 0.
C7_Witness ==
  /\ mode = "find" /\ RowChars(E) = FooRows
  /\ buf = <<102, 111, 111>>
  /\ F.last_match = 0 /\ F.direction = -1

\* The highlight the scanner stored for row j: the one set aside in saved_hl
\* while a search match is painted over the row, the row's own otherwise.
ScannedHl(j) ==
  IF F.saved_hl # NULL /\ F.saved_hl_line = j THEN F.saved_hl ELSE E.row[j + 1].hl

\* Position i (0-based) of row j lies in an occurrence of a keyword that is
\* followed by a separator or the end of the row, and that starts the row or
\* follows a separator or, if quote, the closing quote of a string.
InKeyword(j, i, quote) ==
  LET render == E.row[j + 1].render
  IN \E n \in 1..Len(C_HL_keywords) :
       LET word == KeywordText(C_HL_keywords[n])
       IN \E s \in 0..i :
            /\ i < s + Len(word)
            /\ s + Len(word) <= Len(render)
            /\ SubSeq(render, s + 1, s + Len(word)) = word
            /\ (s + Len(word) = Len(render)
                  \/ is_separator(render[s + Len(word) + 1]))
            /\ \/ s = 0
               \/ is_separator(render[s])
               \/ /\ quote
                  /\ render[s] \in {CH_DQUOTE, CH_SQUOTE}
                  /\ ScannedHl(j)[s] = HL_STRING

KeywordsAfter(quote) ==
  E.syntax # NoSyntax =>
    \A j \in 0..(E.numrows - 1) :
      \A i \in 0..(Len(E.row[j + 1].render) - 1) :
        ScannedHl(j)[i + 1] \in {HL_KEYWORD1, HL_KEYWORD2} => InKeyword(j, i, quote)

\* The rows intx and int x as the scanner marks them.
KeywordExamples ==
  E.syntax # NoSyntax =>
    \A j \in 0..(E.numrows - 1) :
      /\ E.row[j + 1].render = <<105, 110, 116, 120>> =>
           ScannedHl(j) = <<HL_NORMAL, HL_NORMAL, HL_NORMAL, HL_NORMAL>>
      /\ E.row[j + 1].render = <<105, 110, 116, 32, 120>> =>
           ScannedHl(j) = <<HL_KEYWORD2, HL_KEYWORD2, HL_KEYWORD2, HL_NORMAL, HL_NORMAL>>

\* C8 as stated: a character has a keyword class only inside a keyword that is
\* preceded by a separator or starts the row and is followed by a separator or
\* ends the row; intx has no keyword class, int x has the type-keyword class
\* on exactly the three characters of int.
C8_KeywordBetweenSeparators == KeywordsAfter(FALSE) /\ KeywordExamples

\* C8 as the scanner has it: the keyword may also follow the closing quote of
\* a string, which is not a separator character.
C8_KeywordAfterSeparatorOrString == KeywordsAfter(TRUE) /\ KeywordExamples

\* The space of "int x" erased, leaving the row intx under the C descriptor.
C8_Witness ==
  /\ E.syntax # NoSyntax
  /\ RowChars(E) = << <<105, 110, 116, 120>> >>
  /\ E.dirty = 1

\* C9: for every row and every cx in 0..size, editorRowRxToCx of
\* editorRowCxToRx of cx is cx; a row of tabs only has a render of 8 times as
\* many characters.
C9_ColumnRoundTrip ==
  \A j \in 1..E.numrows :
    LET row == E.row[j]
    IN /\ \A cx \in 0..Len(row.chars) :
            editorRowRxToCx(row, editorRowCxToRx(row, cx)) = cx
       /\ (\A k \in 1..Len(row.chars) : row.chars[k] = CH_TAB) =>
            Len(row.render) = 8 * Len(row.chars)

\* A second tab typed into the row that held one tab, and a row with a tab
\* after a letter.
C9_Witness ==
  /\ \E j \in 1..E.numrows : E.row[j].chars = <<CH_TAB, CH_TAB>>
  /\ \E j \in 1..E.numrows :
       Len(E.row[j].chars) >= 2 /\ E.row[j].chars[1] = 97 /\ E.row[j].chars[2] = CH_TAB

\* The render column at which character k (1-based) of chars starts.
ColumnOf(chars, k) ==
  LET RECURSIVE Col(_)
      Col(n) == IF n = 1 THEN 0
                ELSE IF chars[n - 1] = CH_TAB THEN (Col(n - 1) \div 8) * 8 + 8
                ELSE Col(n - 1) + 1
  IN Col(k)

\* render is the tab expansion of chars: character k starts at its column, a
\* tab fills the columns up to the next multiple of 8 with spaces, any other
\* character is copied, and nothing follows the last character.
IsTabExpansion(chars, render) ==
  /\ Len(render) = ColumnOf(chars, Len(chars) + 1)
  /\ \A k \in 1..Len(chars) :
       IF chars[k] = CH_TAB
       THEN \A col \in ColumnOf(chars, k)..(ColumnOf(chars, k + 1) - 1) :
              render[col + 1] = CH_SPACE
       ELSE render[ColumnOf(chars, k) + 1] = chars[k]

\* C10: every row's render is the tab expansion of its chars, so it is at
\* least as long as chars, and hl has one entry per render character.
C10_RenderIsExpansion ==
  \A j \in 1..E.numrows :
    /\ IsTabExpansion(E.row[j].chars, E.row[j].render)
    /\ Len(E.row[j].render) >= Len(E.row[j].chars)
    /\ Len(E.row[j].hl) = Len(E.row[j].render)

\* A letter typed before the tab of a row: the tab now fills columns 1 to 7.
C10_Witness ==
  /\ E.dirty > 0
  /\ \E j \in 1..E.numrows :
       /\ E.row[j].chars = <<97, CH_TAB>>
       /\ Len(E.row[j].render) = 8

\* What arrived for the editorReadKey under way, from the read that ended
\* its wait on: the character of each read, -1 for a read that gave none.
Arrived ==
  LET rd == tty.reads
      w == LoopEnd(rd)
  IN [k \in 1..(Len(rd) - w + 1) |->
        IF rd[w + k - 1].nread = 1 THEN rd[w + k - 1].c ELSE -1]

\* The recognized sequences and their keys.
SequenceKeys ==
  { <<<<27, 91, 49, 126>>, HOME_KEY>>, <<<<27, 91, 51, 126>>, DEL_KEY>>,
    <<<<27, 91, 52, 126>>, END_KEY>>, <<<<27, 91, 53, 126>>, PAGE_UP>>,
    <<<<27, 91, 54, 126>>, PAGE_DOWN>>, <<<<27, 91, 55, 126>>, HOME_KEY>>,
    <<<<27, 91, 56, 126>>, END_KEY>>,
    <<<<27, 91, 65>>, ARROW_UP>>, <<<<27, 91, 66>>, ARROW_DOWN>>,
    <<<<27, 91, 67>>, ARROW_RIGHT>>, <<<<27, 91, 68>>, ARROW_LEFT>>,
    <<<<27, 91, 72>>, HOME_KEY>>, <<<<27, 91, 70>>, END_KEY>>,
    <<<<27, 79, 72>>, HOME_KEY>>, <<<<27, 79, 70>>, END_KEY>> }

\* C11: ESC [ d ~ with d in 1,3,4,5,6,7,8 gives home, delete, end, page-up,
\* page-down, home, end; ESC [ A..D,H,F give up, down, right, left, home,
\* end; ESC O H,F give home, end.
C11_SequencesDecoded ==
  tty.got.status # "read" =>
    \A t \in SequenceKeys :
      Arrived = t[1] => tty.got = Returns(Len(tty.reads), t[2])

\* ESC [ 6 ~ arrived after a timeout of the wait, and page-down was returned.
C11_Witness ==
  /\ tty.reads = <<Timeout, Char(27), Char(91), Char(54), Char(126)>>
  /\ tty.got.key = PAGE_DOWN

\* C12: a character other than ESC is returned as it is; ESC followed by a
\* read that gives nothing, or by anything but a recognized sequence, is
\* returned as ESC, never an error and never a navigation key.
C12_LiteralOrEscape ==
  (tty.got.status # "read" /\ Arrived # <<>> /\ Arrived[1] # -1) =>
    IF Arrived[1] # CH_ESC
    THEN Arrived = <<Arrived[1]>> /\ tty.got = Returns(Len(tty.reads), Arrived[1])
    ELSE /\ tty.got.status = "key"
         /\ Arrived \notin {t[1] : t \in SequenceKeys} => tty.got.key = CH_ESC

\* ESC [ 5 x, ESC [ 9 ~, ESC [ Z, ESC alone and ESC [ 1 with a failed read
\* were each returned as ESC.
C12_Witness ==
  /\ tty.got.status = "key" /\ tty.got.key = CH_ESC
  /\ Arrived \in {<<27, 91, 53, 97>>, <<27, 91, 57, 126>>, <<27, 91, 90>>,
                  <<27, -1>>, <<27, 91, 49, -1>>}

\* The keys that make editorSave write from the current state: Ctrl-S when
\* the buffer has a filename, Enter on a typed name in the save-as prompt.
SaveAttempts ==
  IF ~running THEN {}
  ELSE IF mode = "edit" THEN (IF E.filename # NULL THEN {CTRL_S} ELSE {})
  ELSE IF mode = "save" /\ Len(buf) # 0 THEN {CH_CR}
  ELSE {}

\* The calls of the write that can fail.
FailedIo == {"open", "ftruncate", "write"}

\* The text of every row: its chars and what is rendered of them.
RowText(Ed) ==
  [j \in 1..Len(Ed.row) |-> <<Ed.row[j].idx, Ed.row[j].chars, Ed.row[j].render>>]

C14_FailedSavePreservesState ==
  \A c \in SaveAttempts :
    \A io \in FailedIo :
      \A S2 \in {Press(State, c, io)} :
        /\ S2.E.row = E.row /\ S2.E.numrows = E.numrows
        /\ S2.E.cx = E.cx /\ S2.E.cy = E.cy
        /\ S2.E.dirty = E.dirty
        /\ S2.E.filename = E.filename
        /\ S2.E.syntax = E.syntax

\* C14 for a buffer that has its filename before the attempt.
C14_PreservedWhenNamed == E.filename # NULL => C14_FailedSavePreservesState

\* The document of Ed is that of the current state: rows, dirty, filename.
SameDocument(Ed) ==
  /\ Ed.numrows = E.numrows /\ RowText(Ed) = RowText(E)
  /\ Ed.dirty = E.dirty
  /\ Ed.filename = E.filename

\* Escape in the open prompt: editorPrompt returns NULL, the document is as
\* it was, and editorFind puts cursor and offsets back to its saved values,
\* which the next refresh leaves in place.
EscapeCancels ==
  Prompting =>
    \A S2 \in {editorPrompt(State, CH_ESC, "ok")} :
      \A S3 \in {AwaitKey(S2)} :
        /\ S2.mode = "edit" /\ S2.running
        /\ SameDocument(S2.E)
        /\ mode = "save" => S2.E.statusmsg.fmt = "Save aborted"
        /\ mode = "find" =>
             /\ S2.E.cx = saved.cx /\ S2.E.cy = saved.cy
             /\ S2.E.rowoff = saved.rowoff /\ S2.E.coloff = saved.coloff
             /\ S3.E.cx = saved.cx /\ S3.E.cy = saved.cy
             /\ S3.E.rowoff = saved.rowoff /\ S3.E.coloff = saved.coloff

\* A step that opens a prompt or stays in it: the document stays, and the
\* saved values of a search are those of the state in which it began.
PromptKeeps ==
  /\ (running /\ mode' # "edit") => SameDocument(E')
  /\ (mode = "edit" /\ mode' = "find") =>
       saved' = [cx |-> E.cx, cy |-> E.cy, coloff |-> E.coloff, rowoff |-> E.rowoff]
  /\ (mode = "find" /\ mode' = "find") => saved' = saved

\* C15: escape in the save-as prompt or in the search prompt gives no
\* result and leaves rows, dirty and filename as they were, and after a
\* cancelled search cx, cy, rowoff and coloff are those of the state in which
\* the search began, whatever was typed in the prompt.
C15_EscapeLeavesDocument == [](EscapeCancels) /\ [][PromptKeeps]_vars

\* A search that has moved the cursor to a match on another row and scrolled.
C15_Witness ==
  /\ mode = "find" /\ Len(buf) = 2
  /\ E.cy # saved.cy /\ E.cx # saved.cx /\ E.rowoff # saved.rowoff

\* The rows (C index) of Ed whose highlight array holds HL_MATCH.
OverlayRows(Ed) ==
  {j \in 0..(Ed.numrows - 1) :
     \E k \in 1..Len(Ed.row[j + 1].hl) : Ed.row[j + 1].hl[k] = HL_MATCH}

\* The highlight arrays of Ed with saved_hl put back over row saved_hl_line.
Underlying(Ed, Fs) ==
  [j \in 1..Len(Ed.row) |->
     IF Fs.saved_hl # NULL /\ j = Fs.saved_hl_line + 1
     THEN Fs.saved_hl ELSE Ed.row[j].hl]

\* At most one row is painted, it is row saved_hl_line, whose whole array
\* from before the match is in saved_hl; outside a search no row is painted
\* and nothing is saved.
OneOverlay ==
  /\ Cardinality(OverlayRows(E)) <= 1
  /\ OverlayRows(E) # {} =>
       /\ F.saved_hl # NULL
       /\ OverlayRows(E) = {F.saved_hl_line}
       /\ Len(F.saved_hl) = Len(E.row[F.saved_hl_line + 1].hl)
       /\ \A k \in 1..Len(F.saved_hl) : F.saved_hl[k] # HL_MATCH
  /\ mode # "find" => (OverlayRows(E) = {} /\ F.saved_hl = NULL)

\* A step of a search, its last included, keeps every array under the paint;
\* any other step finds and leaves nothing saved.
OverlayRestored ==
  IF mode = "find" \/ mode' = "find"
  THEN Underlying(E', F') = Underlying(E, F)
  ELSE F.saved_hl = NULL /\ F'.saved_hl = NULL

\* C16: during a search at most one row carries the match overlay, the
\* complete highlight array it had before the match is put back before the
\* next step and when the search ends by Enter or escape, and after the
\* search every row's highlight array is the one from before the search.
C16_OverlayRestored == [](OneOverlay) /\ [][OverlayRestored]_vars

\* The overlay of foo is on the second row after it was on the first, which
\* has its highlight back.
C16_Witness ==
  /\ mode = "find" /\ OverlayRows(E) = {1}
  /\ F.saved_hl_line = 1 /\ F.saved_hl # NULL
  /\ buf = <<102, 111, 111>>
  /\ strstr(E.row[1].render, buf) # -1
  /\ E.row[1].hl = FreshScan(E, 0).hl

\* The render column of the cursor: that of cx in row cy, 0 past the rows.
CursorColumn ==
  IF E.cy < E.numrows THEN ColumnOf(E.row[E.cy + 1].chars, E.cx + 1) ELSE 0

\* C17: after a refresh in a window with a text row and a column,
\* rowoff <= cy < rowoff + screenrows and coloff <= rx < coloff + screencols
\* for rx the render column of the cursor, and the cursor is put at screen
\* position (cy - rowoff + 1, rx - coloff + 1).
C17_CursorInViewport ==
  (E.screenrows >= 1 /\ E.screencols >= 1) =>
    /\ E.rowoff <= E.cy /\ E.cy < E.rowoff + E.screenrows
    /\ E.rx = CursorColumn
    /\ E.coloff <= E.rx /\ E.rx < E.coloff + E.screencols
    /\ term = <<E.cy - E.rowoff + 1, CursorColumn - E.coloff + 1>>
    /\ term[1] \in 1..E.screenrows /\ term[2] \in 1..E.screencols

\* The window of one row and four columns has scrolled down and right to a
\* cursor behind two tabs on the second row.
C17_Witness ==
  /\ E.screenrows = 1 /\ E.screencols = 4
  /\ E.cy = 1 /\ E.rowoff = 1
  /\ E.rx = 16 /\ E.coloff = 13
  /\ term = <<1, 4>>

\* Where the lines of a file end: at each line feed and at the end of the file.
LineEnds(bytes) ==
  {k \in 1..Len(bytes) : bytes[k] = CH_LF \/ k = Len(bytes)}

\* Where the line that ends at e begins: after the line feed before it.
LineStart(bytes, e) ==
  IF \E k \in 1..(e - 1) : bytes[k] = CH_LF
  THEN 1 + CHOOSE k \in 1..(e - 1) :
             bytes[k] = CH_LF /\ \A m \in (k + 1)..(e - 1) : bytes[m] # CH_LF
  ELSE 1

\* Line b..e without the CR and LF characters at its end.
Stripped(bytes, b, e) ==
  LET keep == {k \in b..e : \E m \in k..e : bytes[m] \notin {CH_CR, CH_LF}}
  IN [k \in 1..Cardinality(keep) |-> bytes[b + k - 1]]

\* Row j (1-based) of Ed is line j of bytes, stripped.
IsLineOf(Ed, j, bytes) ==
  \E e \in LineEnds(bytes) :
    /\ Cardinality({k \in LineEnds(bytes) : k <= e}) = j
    /\ Ed.row[j].chars = Stripped(bytes, LineStart(bytes, e), e)

\* Where row j (1-based) of Ed begins in the saved file, counted from 0.
SavedOffset(Ed, j) ==
  LET RECURSIVE Off(_)
      Off(i) == IF i = 1 THEN 0 ELSE Off(i - 1) + Len(Ed.row[i - 1].chars) + 1
  IN Off(j)

\* file holds every row of Ed followed by one line feed, and n is its length.
IsSavedText(Ed, file, n) ==
  /\ n = SavedOffset(Ed, Ed.numrows + 1)
  /\ Len(file) = n
  /\ \A j \in 1..Ed.numrows :
       /\ \A k \in 1..Len(Ed.row[j].chars) :
            file[SavedOffset(Ed, j) + k] = Ed.row[j].chars[k]
       /\ file[SavedOffset(Ed, j + 1)] = CH_LF

\* The user of the session has no key that edits, and a file was opened.
OnlyLoaded ==
  /\ E.filename # NULL
  /\ user.keys \subseteq (Moves \cup {CTRL_S, CTRL_F, CTRL_Q, CTRL_L, CH_ESC})

\* C18: loading makes one row per line of the file, in order, without the CR
\* and LF characters at the line's end; saving writes every row's chars and
\* one line feed each, and reports the sum of (length + 1), the bytes
\* written; the file a CR LF b LF loads as a, b and is saved as a LF b LF.
C18_LoadAndSave ==
  /\ OnlyLoaded =>
       /\ E.numrows = Cardinality(LineEnds(user.bytes))
       /\ Len(E.row) = E.numrows
       /\ \A j \in 1..E.numrows : IsLineOf(E, j, user.bytes)
  /\ \A c \in SaveAttempts :
       \A S2 \in {Press(State, c, "ok")} :
         /\ S2.E.statusmsg.fmt = "written"
         /\ IsSavedText(E, S2.disk, S2.E.statusmsg.arg)
  /\ (OnlyLoaded /\ user.bytes = <<97, CH_CR, CH_LF, 98, CH_LF>>) =>
       /\ RowChars(E) = << <<97>>, <<98>> >>
       /\ E.statusmsg.fmt = "written" =>
            (disk = <<97, CH_LF, 98, CH_LF>> /\ E.statusmsg.arg = 4)

\* The file a CR LF b LF was loaded and saved.
C18_Witness ==
  /\ user.bytes = <<97, CH_CR, CH_LF, 98, CH_LF>>
  /\ RowChars(E) = << <<97>>, <<98>> >>
  /\ disk = <<97, CH_LF, 98, CH_LF>>
  /\ E.statusmsg = Msg("written", 4)

\* Ed is E with c at the end of row p (C index) and one more change counted.
Appended(Ed, p, c) ==
  /\ Ed.numrows = E.numrows
  /\ RowChars(Ed) = [RowChars(E) EXCEPT ![p + 1] = Append(@, c)]
  /\ Ed.dirty = E.dirty + 1

\* The row operations with at out of range, on the rows and the cursor row.
OutOfRangeRejected ==
  /\ \A at \in {-1, E.numrows + 1, E.numrows + 2} :
       editorInsertRow(E, at, <<42>>) = E
  /\ \A at \in {-1, E.numrows, E.numrows + 1} : editorDelRow(E, at) = E
  /\ E.cy < E.numrows =>
       \A len \in {Len(E.row[E.cy + 1].chars)} :
         /\ \A at \in {-1, len, len + 1} : editorRowDelChar(E, E.cy, at) = E
         /\ \A at \in {-1, len + 1, len + 2} :
              Appended(editorRowInsertChar(E, E.cy, at, 42), E.cy, 42)

\* The row operations with at in range, at every row and at the cursor.
InRangeCounted ==
  /\ \A at \in 0..E.numrows :
       \A Ed \in {editorInsertRow(E, at, <<42>>)} :
         Ed.dirty = E.dirty + 1 /\ Ed.numrows = E.numrows + 1
  /\ \A at \in 0..(E.numrows - 1) :
       \A Ed \in {editorDelRow(E, at)} :
         Ed.dirty = E.dirty + 1 /\ Ed.numrows = E.numrows - 1
  /\ E.cy < E.numrows =>
       /\ editorRowInsertChar(E, E.cy, E.cx, 42).dirty = E.dirty + 1
       /\ E.cx < Len(E.row[E.cy + 1].chars) =>
            editorRowDelChar(E, E.cy, E.cx).dirty = E.dirty + 1

\* C19: insertRow with at outside [0, numrows], deleteRow with at outside
\* [0, numrows) and deleteChar with at outside [0, length) change neither
\* the rows nor dirty; insertChar with at outside [0, length] appends the
\* character to the row; each operation that takes effect adds one to dirty.
C19_OutOfRangeRejected == OutOfRangeRejected /\ InRangeCounted

\* Two rows and the cursor inside the first, after two changes.
C19_Witness ==
  /\ E.numrows = 2 /\ E.cy = 0 /\ E.cx = 1
  /\ Len(E.row[1].chars) = 2
  /\ E.dirty = 2

\* What a search step r made of the current state: it went from row from in
\* direction dir to the next row that holds the query, or, no row holding
\* it, it left the last match and the cursor alone.
Stepped(r, query, from, dir) ==
  /\ r.F.direction = dir
  /\ IF Matching(E, query) = {}
     THEN /\ r.F.last_match = from
          /\ r.E.cx = E.cx /\ r.E.cy = E.cy /\ r.E.rowoff = E.rowoff
     ELSE /\ r.F.last_match = NextMatch(E, query, from, dir)
          /\ OnMatch(r.E, query, r.F.last_match)

\* Keys of the prompt that are neither Enter, escape nor an arrow.
OtherKeys == {111, BACKSPACE, DEL_KEY, CTRL_L, HOME_KEY, PAGE_DOWN}

\* C20: in the search callback Enter or escape sets the last match to none
\* and returns without a search or a move of the cursor; right/down set the
\* direction forward, left/up backward; any other key sets the last match to
\* none and searches forward from row 0; and without a last match the step
\* goes forward from row 0 whatever the arrow.
C20_CallbackKeys ==
  (running /\ mode = "find") =>
    /\ \A key \in {CH_CR, CH_ESC} :
         \A r \in {editorFindCallback(E, F, buf, key)} :
           /\ r.F.last_match = -1
           /\ r.F.saved_hl = NULL /\ OverlayRows(r.E) = {}
           /\ r.E.cx = E.cx /\ r.E.cy = E.cy /\ r.E.rowoff = E.rowoff
    /\ \A key \in Arrows :
         Stepped(editorFindCallback(E, F, buf, key), buf,
                 F.last_match,
                 IF F.last_match = -1 THEN 1
                 ELSE IF key \in {ARROW_RIGHT, ARROW_DOWN} THEN 1 ELSE -1)
    /\ \A key \in OtherKeys :
         \A query \in {PromptKey(State, key).buf} :
           Stepped(editorFindCallback(E, F, query, key), query, -1, 1)

\* A search was opened with the cursor on the second row: it has no last
\* match, and a left arrow steps forward from row 0.
C20_Witness ==
  /\ mode = "find" /\ buf = <<>>
  /\ F.last_match = -1
  /\ E.cy = 1 /\ E.numrows >= 2
  /\ editorFindCallback(E, F, buf, ARROW_LEFT).E.cy = 0

\* The queries a search loop is tried on: what is typed, f, z, of and foo.
LoopQueries == {buf, <<102>>, <<122>>, <<111, 102>>, <<102, 111, 111>>}

\* The statics with which the loop can start: no last match and the forward
\* direction, or a last match on any row and either direction.
LoopStatics ==
  {[F EXCEPT !.last_match = lm, !.direction = dir] :
     lm \in -1..(E.numrows - 1), dir \in {1, -1}} \ 
  {[F EXCEPT !.last_match = -1, !.direction = -1]}

\* The loop started with the statics F0 on query examines at most numrows
\* rows, none of them twice, and, when no row's render contains the query,
\* returns the editor state and the statics it was given.
LoopExaminesOnce(F0, query) ==
  \A v \in {FindVisits(E, F0, query, 0, F0.last_match)} :
    /\ Len(v) <= E.numrows
    /\ \A a, b \in 1..Len(v) : v[a] = v[b] => a = b
    /\ \A a \in 1..Len(v) : v[a] \in 0..(E.numrows - 1)
    /\ Matching(E, query) = {} =>
         /\ Len(v) = E.numrows
         /\ FindLoop(E, F0, query, 0, F0.last_match) = [E |-> E, F |-> F0]

LoopTerminates ==
  running => \A F0 \in LoopStatics : \A q \in LoopQueries : LoopExaminesOnce(F0, q)

\* A key of the search prompt other than Enter and escape after which no
\* row's render contains the query: the cursor and the scroll offsets stay,
\* no row is the last match, and every highlight array is the scanner's.
NoMatchStep ==
  (/\ running /\ mode = "find" /\ mode' = "find"
   /\ Matching(E', buf') = {})
  => /\ E'.cx = E.cx /\ E'.cy = E.cy
     /\ E'.rowoff = E.rowoff /\ E'.coloff = E.coloff
     /\ F'.last_match = -1 /\ F'.saved_hl = NULL
     /\ \A j \in 1..E.numrows : E'.row[j].hl = Underlying(E, F)[j]
     /\ F.last_match = -1 =>
          /\ F'.last_match = F.last_match
          /\ \A j \in 1..E.numrows : E'.row[j].hl = E.row[j].hl

\* C21: the loop of a search step runs at most numrows iterations over
\* distinct rows and ends; when no row's render contains the query it leaves
\* the cursor, last_match, rowoff, coloff and every hl as they were.
C21_SearchStepBounded == [](LoopTerminates) /\ [][NoMatchStep]_vars

\* The search for f stepped to row 1 (bar foo, column 4), and a second f
\* typed: no row contains ff, and the cursor is where the match was.
C21_Witness ==
  /\ mode = "find" /\ buf = <<102, 102>>
  /\ RowChars(E) = FooRows
  /\ E.cy = 1 /\ E.cx = 4
  /\ F.last_match = -1

\* Row j (C index) starts its scan inside a comment.
Seeded(j) == j > 0 /\ E.row[j].hl_open_comment

\* No quote and no slash at the positions a..b-1 of render.
Plain(render, a, b) ==
  \A k \in a..(b - 1) : render[k + 1] \notin {CH_DQUOTE, CH_SQUOTE, 47}

\* Where the string literal opened by the quote at q ends: the position of
\* the next such quote, or the length of render when the literal is open.
StringEnd(render, q) ==
  Least({k \in (q + 1)..(Len(render) - 1) : render[k + 1] = render[q + 1]},
        Len(render))

\* The first string literal of a row that starts outside a comment opens at
\* q: a quote with neither quote nor slash before it, and no backslash inside.
FirstString(j, q) ==
  LET render == E.row[j + 1].render
  IN /\ ~Seeded(j)
     /\ render[q + 1] \in {CH_DQUOTE, CH_SQUOTE}
     /\ Plain(render, 0, q)
     /\ \A k \in (q + 1)..(StringEnd(render, q) - 1) : render[k + 1] # CH_BACKSLASH

\* A comment marker inside the first string literal of a row is highlighted
\* as string; when every slash of the row is inside that literal the row has
\* no comment highlight and its hl_open_comment is clear, as seeded.
MarkerInString(j) ==
  LET row == E.row[j + 1]
      render == row.render
      syn == HLDB[E.syntax]
  IN \A q \in 0..(Len(render) - 1) :
       FirstString(j, q) =>
         \A e \in {StringEnd(render, q)} :
           /\ \A i \in (q + 1)..(e - 2) :
                (\/ StartsWith(render, i, syn.singleline_comment_start)
                 \/ StartsWith(render, i, syn.multiline_comment_start))
                => row.hl[i + 1] = HL_STRING /\ row.hl[i + 2] = HL_STRING
           /\ Plain(render, e + 1, Len(render)) =>
                /\ ~row.hl_open_comment
                /\ \A k \in 1..Len(render) :
                     row.hl[k] \notin {HL_COMMENT, HL_MLCOMMENT}
                /\ \A k \in (q + 1)..(IF e < Len(render) THEN e + 1 ELSE e) :
                     row.hl[k] = HL_STRING

\* The first multi-line comment of row j starts its body at s: at 0 in a row
\* seeded as in a comment, or after the first opener of a row that has
\* neither quote nor slash before it.
CommentBody(j, s) ==
  LET render == E.row[j + 1].render
      mcs == HLDB[E.syntax].multiline_comment_start
  IN IF Seeded(j) THEN s = 0
     ELSE /\ s >= Len(mcs)
          /\ StartsWith(render, s - Len(mcs), mcs)
          /\ Plain(render, 0, s - Len(mcs))

\* Where the comment whose body starts at s ends: the position of its
\* closer, or the length of render when the comment stays open.
CommentEnd(render, s, mce) ==
  Least({k \in s..(Len(render) - 1) : StartsWith(render, k, mce)}, Len(render))

\* A single-line comment marker inside the first multi-line comment of a row
\* is highlighted as multi-line comment and the scan goes on: the body and a
\* later closer are multi-line comment, and after the closer the row is out
\* of the comment; without a closer the row ends in the comment.
MarkerInComment(j) ==
  LET row == E.row[j + 1]
      render == row.render
      syn == HLDB[E.syntax]
      scs == syn.singleline_comment_start
      mce == syn.multiline_comment_end
  IN \A s \in 0..Len(render) :
       CommentBody(j, s) =>
         \A e \in {CommentEnd(render, s, mce)} :
           (\E i \in s..(e - Len(scs)) : StartsWith(render, i, scs)) =>
             /\ \A k \in (s + 1)..e : row.hl[k] = HL_MLCOMMENT
             /\ IF e = Len(render) THEN row.hl_open_comment
                ELSE /\ row.hl[e + 1] = HL_MLCOMMENT
                     /\ row.hl[e + 2] = HL_MLCOMMENT
                     /\ Plain(render, e + Len(mce), Len(render)) =>
                          /\ ~row.hl_open_comment
                          /\ \A k \in (e + Len(mce) + 1)..Len(render) :
                               row.hl[k] \notin {HL_COMMENT, HL_MLCOMMENT}

\* C22: a single-line comment marker or a multi-line comment opener inside a
\* string literal is highlighted as string and starts no comment, the row's
\* hl_open_comment staying as seeded; a single-line comment marker inside a
\* multi-line comment is highlighted as multi-line comment and does not stop
\* the scan, so that a closer later on the row ends the comment.
C22_MarkersInsideLiterals ==
  E.syntax # NoSyntax =>
    \A j \in 0..(E.numrows - 1) : MarkerInString(j) /\ MarkerInComment(j)

\* A character typed in front of "//"/* and erased again: the markers in
\* the string are string, the opener after it leaves the row in a comment,
\* and the next row, //*/, is multi-line comment up to its closer.
C22_Witness ==
  /\ E.syntax # NoSyntax /\ E.dirty = 2 /\ E.numrows = 2
  /\ E.row[1].render = <<CH_DQUOTE, 47, 47, CH_DQUOTE, 47, 42>>
  /\ E.row[1].hl = <<HL_STRING, HL_STRING, HL_STRING, HL_STRING,
                     HL_MLCOMMENT, HL_MLCOMMENT>>
  /\ E.row[1].hl_open_comment
  /\ E.row[2].render = <<47, 47, 42, 47>>
  /\ E.row[2].hl = <<HL_MLCOMMENT, HL_MLCOMMENT, HL_MLCOMMENT, HL_MLCOMMENT>>
  /\ ~E.row[2].hl_open_comment

\* The keywords (indices into kws) that occur at position i of render and
\* are followed by a separator or the end of the row.
OccurringAt(kws, render, i) ==
  {j \in 1..Len(kws) :
     LET word == KeywordText(kws[j])
     IN /\ i + Len(word) <= Len(render)
        /\ SubSeq(render, i + 1, i + Len(word)) = word
        /\ (i + Len(word) = Len(render) \/ is_separator(render[i + Len(word) + 1]))}

\* The positions of a row of letters, dots and spaces at which the scanner
\* is at a separator boundary whatever the keywords: the start of the row
\* and the positions that have only spaces before them.
Boundaries(render) ==
  {i \in 0..(Len(render) - 1) : \A k \in 1..i : render[k] = CH_SPACE}

\* Positions i..i+n-1 of row 0 are highlighted with the class of keyword kw.
SpanOf(kw, i) ==
  \A k \in 1..Len(KeywordText(kw)) : E.row[1].hl[i + k] = KeywordClass(kw)

Glyph(c) == IF ~iscntrl(c) THEN c ELSE IF c <= 26 THEN 64 + c ELSE 63

\* The color in which character k (0-based) of a row is to appear: -1 for
\* the default color of HL_NORMAL.
ColorAt(row, k) ==
  IF row.hl[k + 1] = HL_NORMAL THEN -1 ELSE editorSyntaxToColor(row.hl[k + 1])

\* The color in force before column k of a row drawn from column lo: that of
\* the last character before k that is no control character, the default
\* color when there is none.
RunningColor(row, lo, k) ==
  LET P == {m \in lo..(k - 1) : ~iscntrl(row.render[m + 1])}
  IN IF P = {} THEN -1
     ELSE ColorAt(row, CHOOSE m \in P : \A n \in P : n <= m)

\* ESC [ n m for a color n of two digits; ESC [ 39 m resets the color.
ColorSequence(n) == <<CH_ESC, 91, 48 + (n \div 10), 48 + (n % 10), 109>>

\* What is to be written for column k of a row drawn from column lo.
Piece(row, lo, k) ==
  LET c == row.render[k + 1]
      before == RunningColor(row, lo, k)
  IN IF iscntrl(c)
     THEN <<CH_ESC, 91, 55, 109, Glyph(c), CH_ESC, 91, 109>>
            \o (IF before # -1 THEN ColorSequence(before) ELSE <<>>)
     ELSE (IF ColorAt(row, k) = before THEN <<>>
           ELSE IF ColorAt(row, k) = -1 THEN ColorSequence(39)
           ELSE ColorSequence(ColorAt(row, k)))
            \o <<c>>

\* The pieces of the columns lo..hi-1 in order.
RECURSIVE Pieces(_, _, _, _)
Pieces(row, lo, k, hi) ==
  IF k >= hi THEN <<>> ELSE Piece(row, lo, k) \o Pieces(row, lo, k + 1, hi)

\* bytes without its escape sequences: each runs from ESC to the first
\* character after ESC [ that is no digit.
RECURSIVE StripEscapes(_)
StripEscapes(bytes) ==
  IF bytes = <<>> THEN <<>>
  ELSE IF bytes[1] # CH_ESC THEN <<bytes[1]>> \o StripEscapes(Tail(bytes))
  ELSE LET last == CHOOSE k \in 3..Len(bytes) :
                     /\ ~isdigit(bytes[k])
                     /\ \A m \in 3..(k - 1) : isdigit(bytes[m])
       IN StripEscapes(SubSeq(bytes, last + 1, Len(bytes)))

\* C24: for each screen row that shows a row of the buffer, the characters
\* written are those of render in the columns coloff..coloff+screencols-1
\* (none when coloff is at or past the end of render), a control character
\* as its glyph in inverse video followed by the color in force; a color
\* sequence is written only before a character whose color is not the one in
\* force, and the row ends with the color reset, before the line is cleared.
C24_RowsComposed ==
  \A y \in 0..(E.screenrows - 1) :
    (y + E.rowoff < E.numrows) =>
      LET row == E.row[y + E.rowoff + 1]
          lo == E.coloff
          hi == IF Len(row.render) < lo THEN lo
                ELSE IF Len(row.render) > lo + E.screencols
                THEN lo + E.screencols ELSE Len(row.render)
      IN \A out \in {editorDrawRows(E)[y + 1]} :
           /\ StripEscapes(out) =
                [k \in 1..(hi - lo) |-> Glyph(row.render[lo + k])] \o <<CH_CR, CH_LF>>
           /\ out = Pieces(row, lo, lo, hi) \o ColorSequence(39)
                      \o <<CH_ESC, 91, 75, CH_CR, CH_LF>>

\* The row "^A"a scrolled back to column 1 from its end: the glyph A in
\* inverse video with no color to restore, the quote in magenta, a after a
\* color reset.
C24_Witness ==
  /\ E.numrows = 1 /\ E.coloff = 1
  /\ E.row[1].render = <<CH_DQUOTE, 1, CH_DQUOTE, 97>>
  /\ editorDrawRows(E)[1] =
       <<CH_ESC, 91, 55, 109, 65, CH_ESC, 91, 109,
         CH_ESC, 91, 51, 53, 109, CH_DQUOTE,
         CH_ESC, 91, 51, 57, 109, 97,
         CH_ESC, 91, 51, 57, 109, CH_ESC, 91, 75, CH_CR, CH_LF>>

\* toText: the bytes editorRowsToString makes of the rows.
Text(Ed) == SubSeq(editorRowsToString(Ed).buf, 1, editorRowsToString(Ed).buflen)

\* What a keystroke does to dirty: when it changes the text it increases
\* dirty; it increases dirty only when it changes the text, and makes it
\* smaller only by a save that succeeded, which sets it to zero with the
\* text, unchanged, in the file.
DirtyStep ==
  \A before \in {Text(E)} : \A after \in {Text(E')} :
    /\ after # before => E'.dirty > E.dirty
    /\ E'.dirty > E.dirty => after # before /\ mode = "edit"
    /\ E'.dirty < E.dirty =>
         /\ E'.dirty = 0
         /\ after = before /\ disk' = after
         /\ E'.statusmsg = Msg("written", Len(after))

\* C25: dirty is zero once the file is loaded (or none is), every change of
\* the text increases it, and only a successful save sets it back to zero;
\* so the text differs from that at the last load or successful save only
\* while dirty is nonzero.
C25_DirtyTracksText == (E.dirty = 0) /\ [][DirtyStep]_vars

\* A slash typed into the empty buffer and saved: dirty is back at zero and
\* the file holds the text.
C25_Witness ==
  /\ E.dirty = 0
  /\ E.statusmsg = Msg("written", 2)
  /\ Text(E) = <<47, CH_LF>>
  /\ disk = Text(E)

\* The document and the cursor of Ed.
Document(Ed) == <<RowChars(Ed), Ed.numrows, Ed.cx, Ed.cy, Ed.dirty>>

\* n presses of Ctrl-Q in a row from the state S.
RECURSIVE QuitPresses(_, _)
QuitPresses(S, n) ==
  IF n = 0 THEN S ELSE Press(QuitPresses(S, n - 1), CTRL_Q, "ok")

\* While the editor waits for a key of the editing loop: quit_times is
\* KILO_QUIT_TIMES less the Ctrl-Q presses since the last other key; with
\* dirty zero one Ctrl-Q exits; with dirty nonzero and no Ctrl-Q pressed
\* yet, three presses leave the editor running with the warning and the
\* document as it was, and the fourth exits.
QuitCountdown ==
  Editing =>
    /\ quit_times \in 0..KILO_QUIT_TIMES
    /\ quit_times < KILO_QUIT_TIMES =>
         E.dirty # 0 /\ E.statusmsg = Msg("WARNING", quit_times + 1)
    /\ Press(State, CTRL_Q, "ok").running <=> (E.dirty # 0 /\ quit_times > 0)
    /\ (E.dirty # 0 /\ quit_times = KILO_QUIT_TIMES) =>
         /\ \A n \in 1..3 :
              \A T \in {QuitPresses(State, n)} :
                /\ T.running /\ T.mode = "edit"
                /\ T.quit_times = KILO_QUIT_TIMES - n
                /\ T.E.statusmsg = Msg("WARNING", KILO_QUIT_TIMES - n + 1)
                /\ Document(T.E) = Document(E)
                /\ T.disk = disk
         /\ ~QuitPresses(State, 4).running

\* A keystroke either is a Ctrl-Q that warns (quit_times goes down by one,
\* the document stays), or a Ctrl-Q that exits, or leaves the editing loop
\* with quit_times back at KILO_QUIT_TIMES; the editor exits on no other key.
QuitStep ==
  /\ (running /\ ~running') =>
       /\ mode = "edit"
       /\ E.dirty = 0 \/ quit_times = 0
       /\ E' = E
  /\ (running' /\ quit_times' < quit_times) =>
       /\ mode = "edit" /\ mode' = "edit"
       /\ quit_times' = quit_times - 1
       /\ E.dirty # 0
       /\ Document(E') = Document(E)
  /\ (running' /\ mode' = "edit" /\ ~(quit_times' < quit_times)) =>
       quit_times' = KILO_QUIT_TIMES

\* C26: with dirty nonzero the editor exits only on the fourth Ctrl-Q in a
\* row, the first three setting the warning and leaving the document alone,
\* and any other key starts the count again; with dirty zero one Ctrl-Q
\* exits.
C26_QuitConfirmation == [](QuitCountdown) /\ [][QuitStep]_vars

\* A slash typed and Ctrl-Q pressed four times: the editor has exited with
\* the third warning on its message line.
C26_Witness ==
  /\ ~running
  /\ E.dirty # 0
  /\ quit_times = 0
  /\ E.statusmsg = Msg("WARNING", 1)

\* s without its character at position k (0-based).
Without(s, k) == SubSeq(s, 1, k) \o SubSeq(s, k + 2, Len(s))

\* Delete inside a row removes the character under the cursor; at the end
\* of a row that has a successor it joins that row onto the current one.
\* The cursor stays in both cases.
DeleteInText ==
  (Editing /\ E.cy < E.numrows) =>
    \A T \in {Press(State, DEL_KEY, "ok")} :
      LET rows == RowChars(E)
          size == Len(rows[E.cy + 1])
      IN /\ E.cx < size =>
              /\ RowChars(T.E) = [rows EXCEPT ![E.cy + 1] = Without(@, E.cx)]
              /\ T.E.cx = E.cx /\ T.E.cy = E.cy
         /\ (E.cx = size /\ E.cy + 1 < E.numrows) =>
              /\ RowChars(T.E) =
                   [j \in 1..(E.numrows - 1) |->
                      IF j <= E.cy THEN rows[j]
                      ELSE IF j = E.cy + 1 THEN rows[j] \o rows[j + 1]
                      ELSE rows[j + 1]]
              /\ T.E.cx = E.cx /\ T.E.cy = E.cy

\* Delete at the end of the last row, and one past the last row, changes
\* neither the document nor the cursor.
DeleteAtEnd ==
  (/\ Editing
   /\ \/ E.cy = E.numrows
      \/ E.cy = E.numrows - 1 /\ E.cx = Len(E.row[E.cy + 1].chars))
  => \A T \in {Press(State, DEL_KEY, "ok")} :
       /\ RowChars(T.E) = RowChars(E) /\ T.E.dirty = E.dirty
       /\ T.E.cx = E.cx /\ T.E.cy = E.cy

\* C27: the Delete key never moves the cursor; inside a row it removes the
\* character under the cursor, at the end of a row with a successor it
\* joins the next row onto it, and at the end of the last row it changes
\* neither the document nor the cursor.
C27_DeleteKeepsCursor == DeleteInText /\ DeleteAtEnd

\* C27 where the Delete key has a character or a row to take.
C27_DeleteBeforeLastEnd == DeleteInText

\* The printable characters typed in the round trip: a star and an a.
TypedChars == {42, 97}

\* The state after c is typed and Backspace pressed.
TypedAndErased(c) == Press(Press(State, c, "ok"), BACKSPACE, "ok")

\* C28 as stated: from every state of the editing loop, a printable
\* character typed and then Backspace leave the number of rows, every row's
\* chars and the cursor as they were, also one past the last row and in an
\* empty document.
C28_TypeEraseRestores ==
  Editing =>
    \A c \in TypedChars :
      \A T \in {TypedAndErased(c)} :
        /\ T.E.numrows = E.numrows
        /\ RowChars(T.E) = RowChars(E)
        /\ T.E.cx = E.cx /\ T.E.cy = E.cy

\* C28 as the code has it: on a row of the document the rows and the cursor
\* are restored; one past the last row (and so in an empty document) the
\* character is typed into a new row, which Backspace leaves behind empty
\* after the rows that were there, and the cursor is restored.
C28_TypeEraseOnRow ==
  Editing =>
    \A c \in TypedChars :
      \A T \in {TypedAndErased(c)} :
        /\ T.E.cx = E.cx /\ T.E.cy = E.cy
        /\ IF E.cy < E.numrows
           THEN /\ T.E.numrows = E.numrows
                /\ RowChars(T.E) = RowChars(E)
                /\ Text(T.E) = Text(E)
           ELSE /\ T.E.numrows = E.numrows + 1
                /\ RowChars(T.E) = Append(RowChars(E), <<>>)
                /\ Text(T.E) = Text(E) \o <<CH_LF>>

\* A character typed at the end of row 1 of the file "/*\nx\n" and erased
\* with Backspace: the rows and the cursor are those from before.
C28_Witness ==
  /\ RowChars(E) = << <<47, 42>>, <<120>> >>
  /\ E.cx = 1 /\ E.cy = 1
  /\ E.dirty = 2

=============================================================================
